---- MODULE Spec2Model ----
(***************************************************************************)
(* Model of the discovery / filtering / sync pipeline of great_transport:  *)
(* the SQLite store (internal/app/store.go), the rule engine               *)
(* (internal/app/rules.go), the scanner (internal/app/uploader_biliup.go,  *)
(* Scanner) and the controller that walks ids through download, publish   *)
(* and mark-uploaded.                                                      *)
(***************************************************************************)
EXTENDS Integers, Sequences, FiniteSets, TLC

(***************************************************************************)
(* Bounds of the model.                                                    *)
(***************************************************************************)
MaxClock == 1
MaxDecisions == 2
MaxLimit == 3

(***************************************************************************)
(* Universe: the ids the environment can supply.                           *)
(***************************************************************************)
Videos == {"v1", "v2", "v3"}
ChannelIDs == {"chA", "chB"}
Procs == {"p1", "p2"}
NoRow == [absent |-> TRUE]
\* A nullable instant is <<>> (NULL) or <<t>>, t in hours.
NullTime == <<>>

\* What the Fetcher lists for each channel, in the order it returns it
\* (MockDownloader.channelVideos; the upstream is held fixed).
channelVideos == [c \in ChannelIDs |-> IF c = "chA" THEN <<"v1", "v2">> ELSE <<"v3">>]

Min(a, b) == IF a < b THEN a ELSE b
Max(a, b) == IF a > b THEN a ELSE b

VARIABLES uploads, channels, video_candidates, filter_rules, rule_decisions,
          now, ctl, uploadedFiles, publishFailed, synced, lastOp

vars == <<uploads, channels, video_candidates, filter_rules, rule_decisions,
          now, ctl, uploadedFiles, publishFailed, synced, lastOp>>

storeVars == <<uploads, channels, video_candidates, filter_rules, rule_decisions>>

(***************************************************************************)
(* Store: uploads                                                          *)
(***************************************************************************)
\* Variant of IsUploaded: only rows that carry a bilibili_bvid count.
IsUploaded_WithBvid(videoID) ==
    uploads[videoID] # NoRow /\ uploads[videoID].bilibili_bvid # ""

\* Variant of IsUploaded: the query reads no row back.
IsUploaded_Never(videoID) == FALSE

\* Variant of IsUploaded: count > 1 where the code has count > 0.
IsUploaded_CountAboveOne(videoID) ==
    Cardinality({v \in {videoID} : uploads[v] # NoRow}) > 1

\* SELECT COUNT(1) FROM uploads WHERE video_id = ? ; count > 0
IsUploaded(videoID) == uploads[videoID] # NoRow

\* "" is bound as NULL.
nullableString(s) == IF s = "" THEN [null |-> TRUE] ELSE [null |-> FALSE, s |-> s]

\* Variant of MarkUploadedWithBvid: the statement inserts nothing.
MarkUploadedWithBvid_NoInsert(videoID, channelID, bilibiliBvid) == uploads

\* Variant of MarkUploadedWithBvid: INSERT OR REPLACE on a table keyed by
\* nothing but the row itself, so that the new row is the only one left.
MarkUploadedWithBvid_OnlyRow(videoID, channelID, bilibiliBvid) ==
    [v \in Videos |->
        IF v = videoID
        THEN [channel_id |-> IF channelID = "" THEN "unknown" ELSE channelID,
              bilibili_bvid |-> bilibiliBvid, uploaded_at |-> now]
        ELSE NoRow]

\* INSERT ... ON CONFLICT(video_id) DO UPDATE SET channel_id, bilibili_bvid =
\* COALESCE(excluded.bilibili_bvid, uploads.bilibili_bvid), uploaded_at.
\* The value is the uploads table after the statement.
MarkUploadedWithBvid(videoID, channelID, bilibiliBvid) ==
    LET ch == IF channelID = "" THEN "unknown" ELSE channelID
        nb == nullableString(bilibiliBvid)
        old == uploads[videoID]
        bvid == IF old = NoRow THEN (IF nb.null THEN "" ELSE nb.s)
                ELSE IF nb.null THEN old.bilibili_bvid ELSE nb.s
    IN [uploads EXCEPT ![videoID] =
            [channel_id |-> ch, bilibili_bvid |-> bvid, uploaded_at |-> now]]

\* Variant of MarkUploaded: the call returns without the insert.
MarkUploaded_Dropped(videoID, channelID) == uploads

MarkUploaded(videoID, channelID) == MarkUploadedWithBvid(videoID, channelID, "")

\* UPDATE uploads SET bilibili_bvid = ? WHERE video_id = ? ; the string is
\* bound as it is, the empty one included.
UpdateBilibiliBvid(videoID, bilibiliBvid) ==
    IF uploads[videoID] = NoRow THEN uploads
    ELSE [uploads EXCEPT ![videoID].bilibili_bvid = bilibiliBvid]

\* SELECT ... FROM uploads WHERE video_id = ? ; nil when there is no row.
GetUpload(videoID) == uploads[videoID]

(***************************************************************************)
(* Helpers of internal/app (ParseYTDate, ComputeVelocity, ...).  A float   *)
(* is kept as an exact fraction [n, d] with d > 0.                         *)
(***************************************************************************)
Rat(n, d) == [n |-> n, d |-> d]
RatLess(a, b) == a.n * b.d < b.n * a.d
RatEq(a, b) == a.n * b.d = b.n * a.d

\* The upload dates the Fetcher reports: "" and unparsable strings give nil,
\* a YYYYMMDD date gives UTC midnight of that day (hours relative to the
\* model's epoch).
ParseYTDate(s) ==
    CASE s = "" -> NullTime
      [] s = "D-1" -> <<-24>>
      [] s = "D-29" -> <<-696>>
      [] s = "D-30" -> <<-720>>
      [] s = "D-31" -> <<-744>>
      [] OTHER -> NullTime

\* views / max(1, hours since publish); 0 without a date or without views.
ComputeVelocity(views, publishedAt) ==
    IF publishedAt = NullTime \/ views = 0 THEN Rat(0, 1)
    ELSE LET hours == now - publishedAt[1]
         IN Rat(views, IF hours < 1 THEN 1 ELSE hours)

\* (likes + comments) / views; 0 without views.
ComputeEngagement(views, likes, comments) ==
    IF views = 0 THEN Rat(0, 1) ELSE Rat(likes + comments, views)

FirstOrEmpty(s) == IF Len(s) = 0 THEN "" ELSE s[1]

(***************************************************************************)
(* Store: video_candidates                                                 *)
(***************************************************************************)
\* INSERT ... ON CONFLICT(video_id) DO UPDATE SET every column except
\* video_id, channel_id, published_at and discovered_at (which defaults to
\* CURRENT_TIMESTAMP on insert).  cands is the table before the statement,
\* the value the table after it.
UpsertCandidate(cands, vc) ==
    LET old == cands[vc.video_id]
    IN IF old = NoRow
       THEN [cands EXCEPT ![vc.video_id] =
                [vc EXCEPT !.discovered_at = <<now>>]]
       ELSE [cands EXCEPT ![vc.video_id] =
                [vc EXCEPT !.channel_id = old.channel_id,
                           !.published_at = old.published_at,
                           !.discovered_at = old.discovered_at]]

GetCandidate(videoID) == video_candidates[videoID]

\* UPDATE video_candidates SET view_count, like_count, comment_count.
UpdateCandidateMetrics(videoID, views, likes, comments) ==
    IF video_candidates[videoID] = NoRow THEN video_candidates
    ELSE [video_candidates EXCEPT ![videoID].view_count = views,
                                  ![videoID].like_count = likes,
                                  ![videoID].comment_count = comments]

\* LIMIT n: a negative n is no limit.
Limit(seq, n) == IF n < 0 THEN seq ELSE SubSeq(seq, 1, Min(n, Len(seq)))

\* Every order of the rows S that ORDER BY allows: Before(a, b) says the
\* sort key puts a strictly before b; rows with equal keys come in any order.
OrderBy(S, Before(_, _)) ==
    {s \in [1..Cardinality(S) -> S] :
        /\ \A i, j \in 1..Cardinality(S) : i # j => s[i] # s[j]
        /\ \A i, j \in 1..Cardinality(S) : i < j => ~Before(s[j], s[i])}

\* ORDER BY vc.view_velocity DESC, vc.engagement_rate DESC
ByVelocity(a, b) ==
    LET x == video_candidates[a]
        y == video_candidates[b]
    IN \/ RatLess(y.view_velocity, x.view_velocity)
       \/ /\ RatEq(x.view_velocity, y.view_velocity)
          /\ RatLess(y.engagement_rate, x.engagement_rate)

\* Variant of PendingRows: the query without the join on uploads.
PendingRows_NoJoin == {v \in Videos : video_candidates[v] # NoRow}

\* The candidates LEFT JOIN uploads WHERE u.video_id IS NULL
PendingRows == {v \in Videos : video_candidates[v] # NoRow /\ uploads[v] = NoRow}

\* The results ListPendingCandidates(limit) may return (video ids, in order).
ListPendingCandidates(limit) ==
    {Limit(s, limit) : s \in OrderBy(PendingRows, ByVelocity)}

\* WHERE channel_id = ? ORDER BY published_at DESC LIMIT ?: NULL sorts as
\* the smallest value.  cands is the table the query reads.
ListCandidatesByChannel(cands, channelID, limit) ==
    LET ByPublished(a, b) ==
            /\ cands[a].published_at # NullTime
            /\ \/ cands[b].published_at = NullTime
               \/ cands[a].published_at[1] > cands[b].published_at[1]
    IN {Limit(s, limit) : s \in OrderBy(
            {v \in Videos : cands[v] # NoRow /\ cands[v].channel_id = channelID},
            ByPublished)}

(***************************************************************************)
(* Store: filter_rules and rule_decisions.  A rule row is kept without its *)
(* id and created_at, which no query of the pipeline reads.                *)
(***************************************************************************)
RuleNames == {"bad_value", "block_sponsored", "blocked_categories",
              "blocked_channels", "max_age_days", "max_duration",
              "min_duration", "min_views", "odd_field", "odd_type"}

\* Position of a rule name in ORDER BY rule_name (the names above, sorted).
NameRank(name) ==
    CASE name = "bad_value" -> 1
      [] name = "block_sponsored" -> 2
      [] name = "blocked_categories" -> 3
      [] name = "blocked_channels" -> 4
      [] name = "max_age_days" -> 5
      [] name = "max_duration" -> 6
      [] name = "min_duration" -> 7
      [] name = "min_views" -> 8
      [] name = "odd_field" -> 9
      [] OTHER -> 10

\* Variant of AddRule: ON CONFLICT(rule_name) DO NOTHING.
AddRule_KeepOld(rule) ==
    IF filter_rules[rule.rule_name] = NoRow
    THEN [filter_rules EXCEPT ![rule.rule_name] = rule]
    ELSE filter_rules

\* INSERT ... ON CONFLICT(rule_name) DO UPDATE SET rule_type, field, value,
\* is_active, priority.
AddRule(rule) == [filter_rules EXCEPT ![rule.rule_name] = rule]

GetRule(ruleName) == filter_rules[ruleName]

\* UPDATE filter_rules SET value = ? WHERE rule_name = ?
UpdateRule(ruleName, value) ==
    IF filter_rules[ruleName] = NoRow THEN filter_rules
    ELSE [filter_rules EXCEPT ![ruleName].value = value]

\* DELETE FROM filter_rules WHERE rule_name = ?
DeleteRule(ruleName) == [filter_rules EXCEPT ![ruleName] = NoRow]

\* Variant of SortRules: ORDER BY priority DESC, rule_name DESC.
RECURSIVE SortRules_NameDesc(_)
SortRules_NameDesc(S) ==
    IF S = {} THEN <<>>
    ELSE LET first == CHOOSE a \in S : \A b \in S \ {a} :
                        \/ filter_rules[a].priority > filter_rules[b].priority
                        \/ /\ filter_rules[a].priority = filter_rules[b].priority
                           /\ NameRank(a) > NameRank(b)
         IN <<filter_rules[first]>> \o SortRules_NameDesc(S \ {first})

\* The sequence that enumerates the rule names S by priority DESC, rule_name.
RECURSIVE SortRules(_)
SortRules(S) ==
    IF S = {} THEN <<>>
    ELSE LET first == CHOOSE a \in S : \A b \in S \ {a} :
                        \/ filter_rules[a].priority > filter_rules[b].priority
                        \/ /\ filter_rules[a].priority = filter_rules[b].priority
                           /\ NameRank(a) < NameRank(b)
         IN <<filter_rules[first]>> \o SortRules(S \ {first})

\* Variant of ListActiveRules: the query without WHERE is_active = 1.
ListActiveRules_IgnoresActive ==
    SortRules({n \in RuleNames : filter_rules[n] # NoRow})

\* SELECT ... FROM filter_rules WHERE is_active = 1
\* ORDER BY priority DESC, rule_name
ListActiveRules ==
    SortRules({n \in RuleNames : filter_rules[n] # NoRow /\ filter_rules[n].is_active})

ListAllRules == SortRules({n \in RuleNames : filter_rules[n] # NoRow})

\* Variant of RecordRuleDecision: INSERT OR REPLACE keyed by video_id, the
\* row of the video is overwritten in place.
RecordRuleDecision_Replace(decisions, decision) ==
    IF \E k \in 1..Len(decisions) : decisions[k].video_id = decision.video_id
    THEN [k \in 1..Len(decisions) |->
            IF decisions[k].video_id = decision.video_id
            THEN [decision EXCEPT !.id = k] ELSE decisions[k]]
    ELSE Append(decisions, [decision EXCEPT !.id = Len(decisions) + 1])

\* Variant of RecordRuleDecision: the earlier rows of the candidate are
\* deleted before the insert.
RecordRuleDecision_Latest(decisions, decision) ==
    LET Other(d) == d.video_id # decision.video_id
    IN Append(SelectSeq(decisions, Other),
              [decision EXCEPT !.id = Len(decisions) + 1])

\* INSERT INTO rule_decisions: the row gets the next AUTOINCREMENT id.
\* decisions is the table before the statement.
RecordRuleDecision(decisions, decision) ==
    Append(decisions, [decision EXCEPT !.id = Len(decisions) + 1])

DecisionsOf(videoID) ==
    {rule_decisions[i] : i \in {k \in 1..Len(rule_decisions) :
                                    rule_decisions[k].video_id = videoID}}

\* SELECT ... WHERE video_id = ? ORDER BY evaluated_at DESC LIMIT 1: the rows
\* the query may return (none: nil); rows that share the largest evaluated_at
\* are in no defined order.
GetRuleDecision(videoID) ==
    {d \in DecisionsOf(videoID) :
        \A e \in DecisionsOf(videoID) : e.evaluated_at <= d.evaluated_at}

\* rd.id = (SELECT MAX(id) FROM rule_decisions WHERE video_id = vc.video_id)
MaxIdDecision(videoID) ==
    CHOOSE d \in DecisionsOf(videoID) : \A e \in DecisionsOf(videoID) : e.id <= d.id

\* Variant of FilteredRows: the query without rd.id = MAX(id), so that any
\* passing decision of the candidate joins.
FilteredRows_AnyPassed ==
    {v \in Videos : /\ video_candidates[v] # NoRow
                    /\ uploads[v] = NoRow
                    /\ \E d \in DecisionsOf(v) : d.rule_passed}

\* INNER JOIN rule_decisions, LEFT JOIN uploads WHERE rd.rule_passed = 1 AND
\* u.video_id IS NULL AND rd.id = MAX(id)
FilteredRows ==
    {v \in Videos : /\ video_candidates[v] # NoRow
                    /\ uploads[v] = NoRow
                    /\ DecisionsOf(v) # {}
                    /\ MaxIdDecision(v).rule_passed}

ListFilteredCandidates(limit) ==
    {Limit(s, limit) : s \in OrderBy(FilteredRows, ByVelocity)}

\* Variant of RejectedRows: the query without rd.id = MAX(id), so that any
\* rejection of the candidate joins.
RejectedRows_AnyRejected ==
    {v \in Videos : /\ video_candidates[v] # NoRow
                    /\ \E d \in DecisionsOf(v) : ~d.rule_passed}

\* INNER JOIN rule_decisions WHERE rd.rule_passed = 0 AND rd.id = MAX(id)
RejectedRows ==
    {v \in Videos : /\ video_candidates[v] # NoRow
                    /\ DecisionsOf(v) # {}
                    /\ ~MaxIdDecision(v).rule_passed}

\* ORDER BY rd.evaluated_at DESC
ByEvaluated(a, b) == MaxIdDecision(a).evaluated_at > MaxIdDecision(b).evaluated_at

ListRejectedCandidates(limit) ==
    {Limit(s, limit) : s \in OrderBy(RejectedRows, ByEvaluated)}

\* Variant of UnevaluatedRows: NOT EXISTS (a passing decision), so that a
\* rejected candidate is listed again.
UnevaluatedRows_RejectedAgain ==
    {v \in Videos : /\ video_candidates[v] # NoRow
                    /\ uploads[v] = NoRow
                    /\ ~\E d \in DecisionsOf(v) : d.rule_passed}

\* Variant of UnevaluatedRows: the query without the NOT EXISTS on
\* rule_decisions.
UnevaluatedRows_NoNotExists ==
    {v \in Videos : /\ video_candidates[v] # NoRow
                    /\ uploads[v] = NoRow}

\* LEFT JOIN uploads WHERE u.video_id IS NULL AND NOT EXISTS (decision)
UnevaluatedRows ==
    {v \in Videos : /\ video_candidates[v] # NoRow
                    /\ uploads[v] = NoRow
                    /\ DecisionsOf(v) = {}}

ListUnevaluatedCandidates(limit) ==
    {Limit(s, limit) : s \in OrderBy(UnevaluatedRows, ByVelocity)}

(***************************************************************************)
(* Rule engine (internal/app/rules.go).  Rule values are strings; the      *)
(* parsers are tabulated over the values the operators of the model use.   *)
(***************************************************************************)
ParseErr == [ok |-> FALSE]

\* strconv.ParseFloat(value, 64)
ParseFloat(s) ==
    CASE s = "1000" -> [ok |-> TRUE, v |-> Rat(1000, 1)]
      [] s = "60" -> [ok |-> TRUE, v |-> Rat(60, 1)]
      [] s = "3600" -> [ok |-> TRUE, v |-> Rat(3600, 1)]
      [] s = "30" -> [ok |-> TRUE, v |-> Rat(30, 1)]
      [] s = "0.05" -> [ok |-> TRUE, v |-> Rat(5, 100)]
      [] OTHER -> ParseErr

\* strconv.Atoi(value)
Atoi(s) ==
    CASE s = "1000" -> [ok |-> TRUE, v |-> 1000]
      [] s = "60" -> [ok |-> TRUE, v |-> 60]
      [] s = "3600" -> [ok |-> TRUE, v |-> 3600]
      [] s = "30" -> [ok |-> TRUE, v |-> 30]
      [] OTHER -> ParseErr

\* json.Unmarshal(value, &[]string)
UnmarshalList(s) ==
    CASE s = "[\"News & Politics\"]" -> [ok |-> TRUE, v |-> <<"News & Politics">>]
      [] s = "[\"Gaming\",\"Music\"]" -> [ok |-> TRUE, v |-> <<"Gaming", "Music">>]
      [] s = "[\"CHA\"]" -> [ok |-> TRUE, v |-> <<"CHA">>]
      [] s = "[]" -> [ok |-> TRUE, v |-> <<>>]
      [] OTHER -> ParseErr

\* strings.ToLower
ToLower(s) ==
    CASE s = "News & Politics" -> "news & politics"
      [] s = "NEWS & POLITICS" -> "news & politics"
      [] s = "Gaming" -> "gaming"
      [] s = "Music" -> "music"
      [] s = "Education" -> "education"
      [] s = "Entertainment" -> "entertainment"
      [] s = "GAMING" -> "gaming"
      [] s = "CHA" -> "cha"
      [] s = "chA" -> "cha"
      [] s = "chB" -> "chb"
      [] OTHER -> s

\* regexp.Compile(value) and re.MatchString(fieldValue)
RegexCompiles(pattern) == pattern \in {"(?i)sponsored", "Sponsored"}

MatchString(pattern, s) ==
    CASE pattern = "(?i)sponsored" ->
            s \in {"Sponsored Low Views", "sponsored content", "SPONSORED"}
      [] pattern = "Sponsored" -> s \in {"Sponsored Low Views"}
      [] OTHER -> FALSE

Pass == [passed |-> TRUE, reason |-> <<>>]
Fail(reason) == [passed |-> FALSE, reason |-> reason]

\* The numeric field of a candidate a min / max rule reads.
NumericField(field, candidate) ==
    CASE field = "view_count" -> [ok |-> TRUE, v |-> Rat(candidate.view_count, 1)]
      [] field = "like_count" -> [ok |-> TRUE, v |-> Rat(candidate.like_count, 1)]
      [] field = "comment_count" -> [ok |-> TRUE, v |-> Rat(candidate.comment_count, 1)]
      [] field = "duration_seconds" -> [ok |-> TRUE, v |-> Rat(candidate.duration_seconds, 1)]
      [] field = "view_velocity" -> [ok |-> TRUE, v |-> candidate.view_velocity]
      [] field = "engagement_rate" -> [ok |-> TRUE, v |-> candidate.engagement_rate]
      [] OTHER -> ParseErr

\* Variant of evaluateMin: actual <= threshold rejects.
evaluateMin_Exclusive(rule, candidate) ==
    LET threshold == ParseFloat(rule.value)
        actual == NumericField(rule.field, candidate)
    IN IF ~threshold.ok THEN Pass
       ELSE IF ~actual.ok THEN Pass
       ELSE IF ~RatLess(threshold.v, actual.v)
            THEN Fail(<<rule.field, actual.v, "below minimum", threshold.v>>)
            ELSE Pass

evaluateMin(rule, candidate) ==
    LET threshold == ParseFloat(rule.value)
        actual == NumericField(rule.field, candidate)
    IN IF ~threshold.ok THEN Pass
       ELSE IF ~actual.ok THEN Pass
       ELSE IF RatLess(actual.v, threshold.v)
            THEN Fail(<<rule.field, actual.v, "below minimum", threshold.v>>)
            ELSE Pass

evaluateMax(rule, candidate) ==
    LET threshold == ParseFloat(rule.value)
        actual == NumericField(rule.field, candidate)
    IN IF ~threshold.ok THEN Pass
       ELSE IF ~actual.ok THEN Pass
       ELSE IF RatLess(threshold.v, actual.v)
            THEN Fail(<<rule.field, actual.v, "exceeds maximum", threshold.v>>)
            ELSE Pass

\* The string field of a candidate a blocklist / allowlist rule reads.
ListField(field, candidate) ==
    CASE field = "category" -> [ok |-> TRUE, v |-> candidate.category]
      [] field = "language" -> [ok |-> TRUE, v |-> candidate.language]
      [] field = "channel_id" -> [ok |-> TRUE, v |-> candidate.channel_id]
      [] OTHER -> ParseErr

\* DefaultRules, in the order of the slice.
DefaultRules ==
    <<[rule_name |-> "min_views", rule_type |-> "min", field |-> "view_count",
       value |-> "1000", is_active |-> TRUE, priority |-> 100],
      [rule_name |-> "max_age_days", rule_type |-> "age_days", field |-> "published_at",
       value |-> "30", is_active |-> TRUE, priority |-> 90],
      [rule_name |-> "min_duration", rule_type |-> "min", field |-> "duration_seconds",
       value |-> "60", is_active |-> TRUE, priority |-> 80],
      [rule_name |-> "max_duration", rule_type |-> "max", field |-> "duration_seconds",
       value |-> "3600", is_active |-> TRUE, priority |-> 80],
      [rule_name |-> "blocked_categories", rule_type |-> "blocklist",
       field |-> "category", value |-> "[\"News & Politics\"]", is_active |-> TRUE,
       priority |-> 70]>>

\* Variant of SeedEach: every default rule is added, present or not.
RECURSIVE SeedEach_Overwrite(_, _, _)
SeedEach_Overwrite(rules, defaults, failAt) ==
    IF Len(defaults) = 0 THEN [rules |-> rules, err |-> FALSE]
    ELSE IF failAt = 1 THEN [rules |-> rules, err |-> TRUE]
    ELSE SeedEach_Overwrite([rules EXCEPT ![defaults[1].rule_name] = defaults[1]],
                            Tail(defaults), failAt - 1)

\* The loop of SeedDefaultRules on the table rules: GetRule, and AddRule when
\* there is no row.  failAt is the position of the default rule at which a
\* store call fails (0: none); the rules before it are seeded.
RECURSIVE SeedEach(_, _, _)
SeedEach(rules, defaults, failAt) ==
    IF Len(defaults) = 0 THEN [rules |-> rules, err |-> FALSE]
    ELSE IF failAt = 1 THEN [rules |-> rules, err |-> TRUE]
    ELSE SeedEach(IF rules[defaults[1].rule_name] = NoRow
                  THEN [rules EXCEPT ![defaults[1].rule_name] = defaults[1]]
                  ELSE rules,
                  Tail(defaults), failAt - 1)

SeedDefaultRules(failAt) == SeedEach(filter_rules, DefaultRules, failAt)

\* Variant of evaluateBlocklist: the entries are compared as they are written.
evaluateBlocklist_CaseSensitive(rule, candidate) ==
    LET blocklist == UnmarshalList(rule.value)
        fieldValue == ListField(rule.field, candidate)
    IN IF ~blocklist.ok THEN Pass
       ELSE IF ~fieldValue.ok THEN Pass
       ELSE IF \E i \in 1..Len(blocklist.v) : blocklist.v[i] = fieldValue.v
            THEN Fail(<<rule.field, fieldValue.v, "is blocked">>)
            ELSE Pass

evaluateBlocklist(rule, candidate) ==
    LET blocklist == UnmarshalList(rule.value)
        fieldValue == ListField(rule.field, candidate)
    IN IF ~blocklist.ok THEN Pass
       ELSE IF ~fieldValue.ok THEN Pass
       ELSE IF \E i \in 1..Len(blocklist.v) :
                    ToLower(blocklist.v[i]) = ToLower(fieldValue.v)
            THEN Fail(<<rule.field, fieldValue.v, "is blocked">>)
            ELSE Pass

evaluateAllowlist(rule, candidate) ==
    LET allowlist == UnmarshalList(rule.value)
        fieldValue == ListField(rule.field, candidate)
    IN IF ~allowlist.ok THEN Pass
       ELSE IF Len(allowlist.v) = 0 THEN Pass
       ELSE IF ~fieldValue.ok THEN Pass
       ELSE IF \E i \in 1..Len(allowlist.v) :
                    ToLower(allowlist.v[i]) = ToLower(fieldValue.v)
            THEN Pass
            ELSE Fail(<<rule.field, fieldValue.v, "is not in allowed list">>)

\* The string field of a candidate a regex rule reads.
RegexField(field, candidate) ==
    CASE field = "title" -> [ok |-> TRUE, v |-> candidate.title]
      [] field = "description" -> [ok |-> TRUE, v |-> candidate.description]
      [] field = "category" -> [ok |-> TRUE, v |-> candidate.category]
      [] OTHER -> ParseErr

\* Variant of evaluateRegex: a match returns false with an empty reason.
evaluateRegex_NoReason(rule, candidate) ==
    LET fieldValue == RegexField(rule.field, candidate)
    IN IF ~RegexCompiles(rule.value) THEN Pass
       ELSE IF ~fieldValue.ok THEN Pass
       ELSE IF MatchString(rule.value, fieldValue.v) THEN Fail(<<>>)
            ELSE Pass

evaluateRegex(rule, candidate) ==
    LET fieldValue == RegexField(rule.field, candidate)
    IN IF ~RegexCompiles(rule.value) THEN Pass
       ELSE IF ~fieldValue.ok THEN Pass
       ELSE IF MatchString(rule.value, fieldValue.v)
            THEN Fail(<<rule.field, "matches blocked pattern", rule.value>>)
            ELSE Pass

\* int(time.Since(published).Hours() / 24) > maxDays rejects; the conversion
\* truncates toward zero.
evaluateAgeDays(rule, candidate) ==
    LET maxDays == Atoi(rule.value)
        age == now - candidate.published_at[1]
        ageDays == IF age >= 0 THEN age \div 24 ELSE -((-age) \div 24)
    IN IF ~maxDays.ok THEN Pass
       ELSE IF candidate.published_at = NullTime THEN Pass
       ELSE IF ageDays > maxDays.v
            THEN Fail(<<"video age", Rat(ageDays, 1), "exceeds maximum", Rat(maxDays.v, 1)>>)
            ELSE Pass

\* Variant of evaluateRule: a rule of unknown type rejects.
evaluateRule_UnknownTypeFails(rule, candidate) ==
    CASE rule.rule_type = "min" -> evaluateMin(rule, candidate)
      [] rule.rule_type = "max" -> evaluateMax(rule, candidate)
      [] rule.rule_type = "blocklist" -> evaluateBlocklist(rule, candidate)
      [] rule.rule_type = "allowlist" -> evaluateAllowlist(rule, candidate)
      [] rule.rule_type = "regex" -> evaluateRegex(rule, candidate)
      [] rule.rule_type = "age_days" -> evaluateAgeDays(rule, candidate)
      [] OTHER -> Fail(<<"unknown rule type", rule.rule_type>>)

evaluateRule(rule, candidate) ==
    CASE rule.rule_type = "min" -> evaluateMin(rule, candidate)
      [] rule.rule_type = "max" -> evaluateMax(rule, candidate)
      [] rule.rule_type = "blocklist" -> evaluateBlocklist(rule, candidate)
      [] rule.rule_type = "allowlist" -> evaluateAllowlist(rule, candidate)
      [] rule.rule_type = "regex" -> evaluateRegex(rule, candidate)
      [] rule.rule_type = "age_days" -> evaluateAgeDays(rule, candidate)
      [] OTHER -> Pass

\* sort.Slice(rules, Priority >) on a slice of at most 12 elements is an
\* insertion sort: a rule moves in front of its predecessors of strictly
\* lower priority only.
RECURSIVE InsertByPriority(_, _)
InsertByPriority(sorted, rule) ==
    IF Len(sorted) = 0 THEN <<rule>>
    ELSE IF rule.priority > sorted[Len(sorted)].priority
         THEN Append(InsertByPriority(SubSeq(sorted, 1, Len(sorted) - 1), rule),
                     sorted[Len(sorted)])
         ELSE Append(sorted, rule)

RECURSIVE SortSlice(_)
SortSlice(rules) ==
    IF Len(rules) = 0 THEN <<>>
    ELSE InsertByPriority(SortSlice(SubSeq(rules, 1, Len(rules) - 1)), rules[Len(rules)])

\* The decision Evaluate builds: the first failing rule in order, or passed.
RECURSIVE FirstFailure(_, _)
FirstFailure(rules, candidate) ==
    IF Len(rules) = 0
    THEN [id |-> 0, video_id |-> candidate.video_id, rule_passed |-> TRUE,
          reject_rule_name |-> "", reject_reason |-> <<>>, evaluated_at |-> now]
    ELSE LET r == evaluateRule(rules[1], candidate)
         IN IF ~r.passed
            THEN [id |-> 0, video_id |-> candidate.video_id, rule_passed |-> FALSE,
                  reject_rule_name |-> rules[1].rule_name,
                  reject_reason |-> r.reason, evaluated_at |-> now]
            ELSE FirstFailure(Tail(rules), candidate)

Decide(candidate) == FirstFailure(SortSlice(ListActiveRules), candidate)

\* Evaluate(candidate) on the decision log decisions: ListActiveRules, the
\* sort, the first failing rule, RecordRuleDecision.  failure names the store
\* call that fails: "list" (ListActiveRules), "record" (RecordRuleDecision)
\* or "none".  The value is the log after the call and what it returns.
Evaluate(decisions, candidate, failure) ==
    IF failure = "none"
    THEN [decisions |-> RecordRuleDecision(decisions, Decide(candidate)),
          err |-> FALSE, decision |-> Decide(candidate)]
    ELSE [decisions |-> decisions, err |-> TRUE, decision |-> NoRow]

\* Variant of EvaluateBatch: the loop ends after the first candidate.
EvaluateBatch_FirstOnly(decisions, candidates, failAt) ==
    IF Len(candidates) = 0
    THEN [decisions |-> decisions, passed |-> <<>>, rejected |-> <<>>, err |-> FALSE]
    ELSE LET r == Evaluate(decisions, candidates[1],
                           IF failAt = 1 THEN "record" ELSE "none")
         IN IF r.err
            THEN [decisions |-> r.decisions, passed |-> <<>>, rejected |-> <<>>,
                  err |-> TRUE]
            ELSE [decisions |-> r.decisions,
                  passed |-> IF r.decision.rule_passed
                             THEN <<candidates[1].video_id>> ELSE <<>>,
                  rejected |-> IF r.decision.rule_passed
                               THEN <<>> ELSE <<candidates[1].video_id>>,
                  err |-> FALSE]

\* EvaluateBatch(candidates): serial; the first Evaluate error returns
\* nil, nil, err.  failAt is the position of the candidate whose Evaluate
\* fails (0: none).
RECURSIVE EvaluateBatch(_, _, _)
EvaluateBatch(decisions, candidates, failAt) ==
    IF Len(candidates) = 0
    THEN [decisions |-> decisions, passed |-> <<>>, rejected |-> <<>>, err |-> FALSE]
    ELSE LET r == Evaluate(decisions, candidates[1],
                           IF failAt = 1 THEN "record" ELSE "none")
         IN IF r.err
            THEN [decisions |-> r.decisions, passed |-> <<>>, rejected |-> <<>>,
                  err |-> TRUE]
            ELSE LET rest == EvaluateBatch(r.decisions, Tail(candidates), failAt - 1)
                 IN IF rest.err THEN rest
                    ELSE [decisions |-> rest.decisions,
                          passed |-> IF r.decision.rule_passed
                                     THEN <<candidates[1].video_id>> \o rest.passed
                                     ELSE rest.passed,
                          rejected |-> IF r.decision.rule_passed
                                       THEN rest.rejected
                                       ELSE <<candidates[1].video_id>> \o rest.rejected,
                          err |-> FALSE]

(***************************************************************************)
(* Store: channels.  The url of a channel is kept as the id of the channel *)
(* the url points at.                                                      *)
(***************************************************************************)
\* Variant of AddChannel: on conflict is_active = excluded.is_active.
AddChannel_AsPassed(ch) ==
    LET old == channels[ch.channel_id]
    IN [channels EXCEPT ![ch.channel_id] =
            IF old = NoRow
            THEN [name |-> ch.name, url |-> ch.url,
                  subscriber_count |-> ch.subscriber_count,
                  video_count |-> ch.video_count,
                  last_scanned_at |-> NullTime,
                  scan_frequency_hours |-> ch.scan_frequency_hours,
                  is_active |-> ch.is_active, created_at |-> now]
            ELSE [old EXCEPT !.name = ch.name, !.url = ch.url,
                             !.subscriber_count = ch.subscriber_count,
                             !.video_count = ch.video_count,
                             !.is_active = ch.is_active]]

\* INSERT ... ON CONFLICT(channel_id) DO UPDATE SET name = COALESCE(
\* excluded.name, channels.name), url, subscriber_count = COALESCE(...),
\* video_count = COALESCE(...), is_active = 1.  The Go string and int
\* arguments are never bound as NULL, so COALESCE takes the new value.
AddChannel(ch) ==
    LET old == channels[ch.channel_id]
    IN IF old = NoRow
       THEN [channels EXCEPT ![ch.channel_id] =
                [name |-> ch.name, url |-> ch.url,
                 subscriber_count |-> ch.subscriber_count,
                 video_count |-> ch.video_count,
                 last_scanned_at |-> NullTime,
                 scan_frequency_hours |-> ch.scan_frequency_hours,
                 is_active |-> ch.is_active, created_at |-> now]]
       ELSE [channels EXCEPT ![ch.channel_id] =
                [old EXCEPT !.name = ch.name, !.url = ch.url,
                            !.subscriber_count = ch.subscriber_count,
                            !.video_count = ch.video_count,
                            !.is_active = TRUE]]

\* nil when absent; a stored scan_frequency_hours of 0 reads as 6.
GetChannel(channelID) ==
    IF channels[channelID] = NoRow THEN NoRow
    ELSE [channels[channelID] EXCEPT !.scan_frequency_hours =
            IF @ = 0 THEN 6 ELSE @]

\* Variant of ListActiveChannels: the query without WHERE is_active = 1.
ListActiveChannels_All ==
    LET ByCreated(a, b) == channels[a].created_at < channels[b].created_at
    IN OrderBy({c \in ChannelIDs : channels[c] # NoRow}, ByCreated)

\* WHERE is_active = 1 ORDER BY created_at: the orders the query may return.
ListActiveChannels ==
    LET ByCreated(a, b) == channels[a].created_at < channels[b].created_at
    IN OrderBy({c \in ChannelIDs : channels[c] # NoRow /\ channels[c].is_active},
               ByCreated)

\* Variant of UpdateChannelScanned: the statement is not run.
UpdateChannelScanned_Skipped(chans, channelID) == chans

\* Variant of UpdateChannelScanned: the time is written only while the column
\* is NULL.
UpdateChannelScanned_OnlyFirst(chans, channelID) ==
    IF chans[channelID] = NoRow \/ chans[channelID].last_scanned_at # NullTime
    THEN chans
    ELSE [chans EXCEPT ![channelID].last_scanned_at = <<now>>]

\* UPDATE channels SET last_scanned_at = now WHERE channel_id = ?
UpdateChannelScanned(chans, channelID) ==
    IF chans[channelID] = NoRow THEN chans
    ELSE [chans EXCEPT ![channelID].last_scanned_at = <<now>>]

\* UPDATE channels SET is_active = 0 WHERE channel_id = ?
DeactivateChannel(channelID) ==
    IF channels[channelID] = NoRow THEN channels
    ELSE [channels EXCEPT ![channelID].is_active = FALSE]

(***************************************************************************)
(* Fetcher (YtDlpDownloader).  ok says whether the yt-dlp run succeeds.    *)
(***************************************************************************)
\* What yt-dlp reports for a video.
VideoMeta(v) ==
    CASE v = "v1" -> [id |-> "v1", title |-> "Test Video", description |-> "",
                      duration |-> 300, view_count |-> 5000, like_count |-> 200,
                      comment_count |-> 50, upload_date |-> "D-1",
                      thumbnail |-> "", tags |-> <<>>, categories |-> <<"Gaming">>]
      [] v = "v2" -> [id |-> "v2", title |-> "Sponsored Low Views", description |-> "",
                      duration |-> 300, view_count |-> 100, like_count |-> 0,
                      comment_count |-> 0, upload_date |-> "",
                      thumbnail |-> "", tags |-> <<>>,
                      categories |-> <<"News & Politics">>]
      [] OTHER -> [id |-> v, title |-> "Test Video", description |-> "",
                   duration |-> 7200, view_count |-> 0, like_count |-> 0,
                   comment_count |-> 0, upload_date |-> "D-31",
                   thumbnail |-> "", tags |-> <<>>, categories |-> <<>>]

\* limit <= 0 is an error; --playlist-items 1:limit gives the first limit ids.
ListChannelVideoIDs(channelURL, limit, ok) ==
    IF limit <= 0 \/ ~ok THEN [err |-> TRUE, ids |-> <<>>]
    ELSE [err |-> FALSE, ids |-> Limit(channelVideos[channelURL], limit)]

\* Variant of GetChannelVideosMetadata: a failure is returned as an empty
\* list without the error.
GetChannelVideosMetadata_ErrorSwallowed(channelURL, limit, ok) ==
    IF limit <= 0 \/ ~ok THEN [err |-> FALSE, videos |-> <<>>]
    ELSE [err |-> FALSE,
          videos |-> [i \in 1..Min(limit, Len(channelVideos[channelURL])) |->
                        VideoMeta(channelVideos[channelURL][i])]]

GetChannelVideosMetadata(channelURL, limit, ok) ==
    IF limit <= 0 \/ ~ok THEN [err |-> TRUE, videos |-> <<>>]
    ELSE [err |-> FALSE,
          videos |-> [i \in 1..Min(limit, Len(channelVideos[channelURL])) |->
                        VideoMeta(channelVideos[channelURL][i])]]

(***************************************************************************)
(* Scanner                                                                 *)
(***************************************************************************)
\* The candidate ScanChannel builds from a metadata record.
CandidateOf(v, channelID) ==
    [video_id |-> v.id, channel_id |-> channelID, title |-> v.title,
     description |-> v.description, duration_seconds |-> v.duration,
     view_count |-> v.view_count, like_count |-> v.like_count,
     comment_count |-> v.comment_count,
     published_at |-> ParseYTDate(v.upload_date), discovered_at |-> NullTime,
     thumbnail_url |-> v.thumbnail, tags |-> v.tags,
     category |-> FirstOrEmpty(v.categories), language |-> "",
     view_velocity |-> ComputeVelocity(v.view_count, ParseYTDate(v.upload_date)),
     engagement_rate |-> ComputeEngagement(v.view_count, v.like_count, v.comment_count)]

\* The upsert loop of ScanChannel: an upsert in failed errors, is logged and
\* skipped.  The value is the table and the count after the loop.
RECURSIVE StoreCandidates(_, _, _, _)
StoreCandidates(cands, videos, channelID, failed) ==
    IF Len(videos) = 0 THEN [cands |-> cands, count |-> 0]
    ELSE IF videos[1].id \in failed
         THEN StoreCandidates(cands, Tail(videos), channelID, failed)
         ELSE LET rest == StoreCandidates(
                            UpsertCandidate(cands, CandidateOf(videos[1], channelID)),
                            Tail(videos), channelID, failed)
              IN [cands |-> rest.cands, count |-> rest.count + 1]

\* ScanChannel(channelID, limit) of a scanner with AutoFilter = autoFilter,
\* run on the store st = [cands, chans, decisions].  fetchOk: the metadata
\* call succeeds; failed: the videos whose upsert fails; failAt: the position
\* in the auto-filter batch whose Evaluate fails (0: none).  The value is the
\* set of outcomes [cands, chans, decisions, count, err] the call can have.
ScanChannel(st, channelID, limit, autoFilter, fetchOk, failed, failAt) ==
    LET ch == st.chans[channelID]
        meta == GetChannelVideosMetadata(ch.url, limit, fetchOk)
        stored == StoreCandidates(st.cands, meta.videos, channelID, failed)
        chans == UpdateChannelScanned(st.chans, channelID)
    IN IF ch = NoRow
       THEN {[cands |-> st.cands, chans |-> st.chans, decisions |-> st.decisions,
              count |-> 0, err |-> FALSE]}
       ELSE IF meta.err
       THEN {[cands |-> st.cands, chans |-> st.chans, decisions |-> st.decisions,
              count |-> 0, err |-> TRUE]}
       ELSE IF autoFilter /\ stored.count > 0
       THEN {[cands |-> stored.cands, chans |-> chans,
              decisions |-> EvaluateBatch(st.decisions,
                                [i \in 1..Len(batch) |-> stored.cands[batch[i]]],
                                failAt).decisions,
              count |-> stored.count, err |-> FALSE] :
                batch \in ListCandidatesByChannel(stored.cands, channelID, stored.count)}
       ELSE {[cands |-> stored.cands, chans |-> chans, decisions |-> st.decisions,
              count |-> stored.count, err |-> FALSE]}

\* Variant of ScanEach: the first failing scan ends the sweep.
RECURSIVE ScanEach_AbortOnError(_, _, _, _, _, _)
ScanEach_AbortOnError(st, chs, defaultLimit, autoFilter, fetchOk, failed) ==
    IF Len(chs) = 0 THEN {st}
    ELSE UNION {IF r.err THEN {st}
                ELSE ScanEach_AbortOnError(
                        [cands |-> r.cands, chans |-> r.chans,
                         decisions |-> r.decisions],
                        Tail(chs), defaultLimit, autoFilter, fetchOk, failed) :
                    r \in ScanChannel(st, chs[1], defaultLimit, autoFilter,
                                      fetchOk[chs[1]], failed, 0)}

\* The loop of ScanAllActive over the listed channels: a failing scan is
\* logged and the sweep goes on.  fetchOk maps each channel to whether its
\* metadata call succeeds.
RECURSIVE ScanEach(_, _, _, _, _, _)
ScanEach(st, chs, defaultLimit, autoFilter, fetchOk, failed) ==
    IF Len(chs) = 0 THEN {st}
    ELSE UNION {ScanEach([cands |-> r.cands, chans |-> r.chans,
                          decisions |-> r.decisions],
                         Tail(chs), defaultLimit, autoFilter, fetchOk, failed) :
                    r \in ScanChannel(st, chs[1], defaultLimit, autoFilter,
                                      fetchOk[chs[1]], failed, 0)}

\* ScanAllActive(defaultLimit): the stores the sweep can leave.
ScanAllActive(defaultLimit, autoFilter, fetchOk, failed) ==
    UNION {ScanEach([cands |-> video_candidates, chans |-> channels,
                     decisions |-> rule_decisions],
                    chs, defaultLimit, autoFilter, fetchOk, failed) :
                chs \in ListActiveChannels}

(***************************************************************************)
(* State machine.  ctl[p] is the sync call that thread p runs;             *)
(* uploadedFiles counts the successful Publisher invocations per video,    *)
(* publishFailed holds the videos for which a Publisher invocation failed; *)
(* synced holds the <<channel, limit>> of the last finished sync call when *)
(* that was a sync_channel that returned without error; lastOp is the last *)
(* engine or scanner call and what it returned.  ctl[p].pre and            *)
(* ctl[p].preFiles are the uploaded ids and uploadedFiles at the start of  *)
(* the call; ctl[p].repeat says that the call repeats the sync_channel     *)
(* that synced holds.                                                      *)
(***************************************************************************)
Idle == [pc |-> "idle", op |-> "none", channel_id |-> "", limit |-> 0,
         ids |-> <<>>, i |-> 0, considered |-> 0, skipped |-> 0,
         downloaded |-> 0, uploaded |-> 0, err |-> "none", repeat |-> FALSE,
         pre |-> {}, preFiles |-> <<>>]

NoOp == [op |-> "none", video_id |-> "", err |-> FALSE]
\* lastOp after a call that is not a call of the engine or the scanner.
StoreCall == [op |-> "store", video_id |-> "", err |-> FALSE]

Init ==
    /\ uploads = [v \in Videos |-> NoRow]
    /\ channels = [c \in ChannelIDs |-> NoRow]
    /\ video_candidates = [v \in Videos |-> NoRow]
    /\ filter_rules = [n \in RuleNames |-> NoRow]
    /\ rule_decisions = <<>>
    /\ now = 0
    /\ ctl = [p \in Procs |-> Idle]
    /\ uploadedFiles = [v \in Videos |-> 0]
    /\ publishFailed = {}
    /\ synced = {}
    /\ lastOp = NoOp

\* time passes
Tick ==
    /\ now < MaxClock
    /\ now' = now + 1
    /\ lastOp' = StoreCall
    /\ UNCHANGED <<storeVars, ctl, uploadedFiles, publishFailed, synced>>

(***************************************************************************)
(* Controller.  Each step of a sync call is one action: the Fetcher, the   *)
(* Publisher and the store are suspension points between which other       *)
(* threads run.                                                            *)
(***************************************************************************)
Running(p) == ctl[p].pc \notin {"idle", "done"}

\* The position after id i of the call c: the next id, or the end.
Advance(c) ==
    IF c.i < Len(c.ids) THEN [c EXCEPT !.i = c.i + 1, !.pc = "check"]
    ELSE [c EXCEPT !.pc = "done"]

Finished(p, c) ==
    IF c.pc # "done" THEN synced
    ELSE IF c.op = "channel" /\ c.err = "none" THEN {<<c.channel_id, c.limit>>}
    ELSE {}

\* sync_channel(channelID, limit), step 1: list the ids, considered = len(ids).
SyncChannel(p, channelID, limit, ok) ==
    /\ ~Running(p)
    /\ LET l == ListChannelVideoIDs(channelID, limit, ok)
           c == [Idle EXCEPT !.op = "channel", !.channel_id = channelID,
                             !.limit = limit, !.ids = l.ids,
                             !.considered = Len(l.ids),
                             !.repeat = (<<channelID, limit>> \in synced),
                             !.pre = {v \in Videos : uploads[v] # NoRow},
                             !.preFiles = uploadedFiles]
           c2 == IF l.err THEN [c EXCEPT !.pc = "done", !.err = "list"]
                 ELSE IF Len(l.ids) = 0 THEN [c EXCEPT !.pc = "done"]
                 ELSE [c EXCEPT !.pc = "check", !.i = 1]
       IN /\ ctl' = [ctl EXCEPT ![p] = c2]
          /\ synced' = Finished(p, c2)
    /\ UNCHANGED <<storeVars, now, uploadedFiles, publishFailed, lastOp>>

\* sync_video(videoID): the same steps for the single id.
SyncVideo(p, videoID) ==
    /\ ~Running(p)
    /\ ctl' = [ctl EXCEPT ![p] = [Idle EXCEPT !.op = "video", !.ids = <<videoID>>,
                                             !.considered = 1, !.pc = "check",
                                             !.i = 1,
                                             !.pre = {v \in Videos : uploads[v] # NoRow},
                                             !.preFiles = uploadedFiles]]
    /\ UNCHANGED <<storeVars, now, uploadedFiles, publishFailed, synced, lastOp>>

\* step 2a: if is_uploaded(id), count it as skipped and go on.
CheckUploaded(p) ==
    /\ ctl[p].pc = "check"
    /\ LET c == ctl[p]
           c2 == IF IsUploaded(c.ids[c.i])
                 THEN Advance([c EXCEPT !.skipped = c.skipped + 1])
                 ELSE [c EXCEPT !.pc = "download"]
       IN /\ ctl' = [ctl EXCEPT ![p] = c2]
          /\ synced' = Finished(p, c2)
    /\ UNCHANGED <<storeVars, now, uploadedFiles, publishFailed, lastOp>>

\* step 2b: download; an error aborts the sync with the counts so far.
Download(p, ok) ==
    /\ ctl[p].pc = "download"
    /\ ctl' = [ctl EXCEPT ![p] =
                IF ok THEN [@ EXCEPT !.pc = "publish", !.downloaded = @ + 1]
                ELSE [@ EXCEPT !.pc = "done", !.err = "download"]]
    /\ synced' = Finished(p, ctl'[p])
    /\ UNCHANGED <<storeVars, now, uploadedFiles, publishFailed, lastOp>>

\* step 2c: publish the file; an error aborts, the id is not marked.
Publish(p, ok) ==
    /\ ctl[p].pc = "publish"
    /\ ctl' = [ctl EXCEPT ![p] =
                IF ok THEN [@ EXCEPT !.pc = "mark"]
                ELSE [@ EXCEPT !.pc = "done", !.err = "publish"]]
    /\ uploadedFiles' = IF ok
                        THEN [uploadedFiles EXCEPT ![ctl[p].ids[ctl[p].i]] = @ + 1]
                        ELSE uploadedFiles
    /\ publishFailed' = IF ok THEN publishFailed
                        ELSE publishFailed \cup {ctl[p].ids[ctl[p].i]}
    /\ synced' = Finished(p, ctl'[p])
    /\ UNCHANGED <<storeVars, now, lastOp>>

\* steps 2d, 2e: mark_uploaded(id, channel_id), count it as uploaded.
Mark(p) ==
    /\ ctl[p].pc = "mark"
    /\ LET c == ctl[p]
           c2 == Advance([c EXCEPT !.uploaded = c.uploaded + 1])
       IN /\ uploads' = MarkUploaded(c.ids[c.i], c.channel_id)
          /\ ctl' = [ctl EXCEPT ![p] = c2]
          /\ synced' = Finished(p, c2)
    /\ UNCHANGED <<channels, video_candidates, filter_rules, rule_decisions,
                   now, uploadedFiles, publishFailed, lastOp>>

\* One step of the sync call of thread p.
SyncStep(p) ==
    \/ CheckUploaded(p)
    \/ \E ok \in BOOLEAN : Download(p, ok)
    \/ \E ok \in BOOLEAN : Publish(p, ok)
    \/ Mark(p)

\* Sync calls made one after another: a call starts when no call is running.
NoneRunning == \A q \in Procs : ~Running(q)

StartSync(p) ==
    \/ \E c \in ChannelIDs, l \in 0..MaxLimit, ok \in BOOLEAN :
            SyncChannel(p, c, l, ok)
    \/ \E v \in Videos : SyncVideo(p, v)

NextSync ==
    \/ NoneRunning /\ StartSync("p1")
    \/ SyncStep("p1")

SpecSync == Init /\ [][NextSync]_vars

\* Sync calls of two threads of one process, interleaved step by step.
NextConc ==
    \/ \E p \in Procs : SyncChannel(p, "chA", MaxLimit, TRUE)
    \/ \E p \in Procs : SyncVideo(p, "v1")
    \/ \E p \in Procs : SyncStep(p)

SpecConc == Init /\ [][NextConc]_vars

(***************************************************************************)
(* Calls on the store, the rule engine and the scanner.  Each is one       *)
(* action; lastOp records the call, the video it was about and whether it  *)
(* returned an error.                                                      *)
(***************************************************************************)
ctlVars == <<ctl, uploadedFiles, publishFailed, synced>>

\* The channel that publishes a video.
ChannelOf(v) == IF v = "v3" THEN "chB" ELSE "chA"

\* The rules the administrative calls of the model add (RulePriority
\* workflow: min_views at priority 100, block_sponsored at priority 50).
RuleCatalogue ==
    {[rule_name |-> "min_views", rule_type |-> "min", field |-> "view_count",
      value |-> "1000", is_active |-> a, priority |-> 100] : a \in BOOLEAN}
    \cup
    {[rule_name |-> "block_sponsored", rule_type |-> "regex", field |-> "title",
      value |-> "(?i)sponsored", is_active |-> a, priority |-> 50] : a \in BOOLEAN}

Called(op, videoID, err) == [op |-> op, video_id |-> videoID, err |-> err]

\* store.UpsertCandidate(candidate of v as the scanner builds it)
OpUpsertCandidate(v) ==
    /\ video_candidates' =
            UpsertCandidate(video_candidates, CandidateOf(VideoMeta(v), ChannelOf(v)))
    /\ lastOp' = StoreCall
    /\ UNCHANGED <<uploads, channels, filter_rules, rule_decisions, now, ctlVars>>

\* store.MarkUploaded(v, channelID)
OpMarkUploaded(v, channelID) ==
    /\ uploads' = MarkUploaded(v, channelID)
    /\ lastOp' = StoreCall
    /\ UNCHANGED <<channels, video_candidates, filter_rules, rule_decisions,
                   now, ctlVars>>

\* store.AddRule(rule)
OpAddRule(rule) ==
    /\ filter_rules' = AddRule(rule)
    /\ lastOp' = StoreCall
    /\ UNCHANGED <<uploads, channels, video_candidates, rule_decisions, now, ctlVars>>

\* store.DeleteRule(ruleName)
OpDeleteRule(ruleName) ==
    /\ filter_rules' = DeleteRule(ruleName)
    /\ lastOp' = StoreCall
    /\ UNCHANGED <<uploads, channels, video_candidates, rule_decisions, now, ctlVars>>

\* engine.Evaluate(the stored candidate v); failure names the store call
\* that fails.
OpEvaluate(v, failure) ==
    /\ video_candidates[v] # NoRow
    /\ Len(rule_decisions) < MaxDecisions
    /\ LET r == Evaluate(rule_decisions, video_candidates[v], failure)
       IN /\ rule_decisions' = r.decisions
          /\ lastOp' = Called("evaluate", v, r.err)
    /\ UNCHANGED <<uploads, channels, video_candidates, filter_rules, now, ctlVars>>

\* store.RecordRuleDecision(decision) by a caller that supplies evaluated_at.
OpRecordRuleDecision(v, passed, evaluatedAt) ==
    /\ Len(rule_decisions) < MaxDecisions
    /\ rule_decisions' = RecordRuleDecision(rule_decisions,
            [id |-> 0, video_id |-> v, rule_passed |-> passed,
             reject_rule_name |-> IF passed THEN "" ELSE "min_views",
             reject_reason |-> <<>>, evaluated_at |-> evaluatedAt])
    /\ lastOp' = StoreCall
    /\ UNCHANGED <<uploads, channels, video_candidates, filter_rules, now, ctlVars>>

\* store.AddChannel(channel c, active)
OpAddChannel(c) ==
    /\ channels' = AddChannel([channel_id |-> c, name |-> c, url |-> c,
                               subscriber_count |-> 0, video_count |-> 0,
                               scan_frequency_hours |-> 6, is_active |-> TRUE])
    /\ lastOp' = StoreCall
    /\ UNCHANGED <<uploads, video_candidates, filter_rules, rule_decisions,
                   now, ctlVars>>

\* scanner.ScanChannel(c, limit) with AutoFilter = autoFilter.
OpScanChannel(c, limit, autoFilter, fetchOk) ==
    \E r \in ScanChannel([cands |-> video_candidates, chans |-> channels,
                          decisions |-> rule_decisions],
                         c, limit, autoFilter, fetchOk, {}, 0) :
        /\ Len(r.decisions) <= MaxDecisions
        /\ video_candidates' = r.cands
        /\ channels' = r.chans
        /\ rule_decisions' = r.decisions
        /\ lastOp' = Called("scan_channel", "", r.err)
        /\ UNCHANGED <<uploads, filter_rules, now, ctlVars>>

\* The discovery, filtering and sync pipeline, one call at a time: v2 is
\* discovered by scans of chA only, v1 is the video the sync calls carry.
Next ==
    \/ \E v \in {"v1", "v3"} : OpUpsertCandidate(v)
    \/ \E v \in {"v2", "v3"} : OpMarkUploaded(v, "")
    \/ \E v \in {"v1", "v2"}, f \in {"none", "record"} : OpEvaluate(v, f)
    \/ OpAddChannel("chA")
    \/ \E l \in 0..MaxLimit, a \in BOOLEAN, ok \in BOOLEAN :
            OpScanChannel("chA", l, a, ok)
    \/ NoneRunning /\ SyncVideo("p1", "v1")
    \/ SyncStep("p1")

Spec == Init /\ [][Next]_vars

\* The rule engine and the decision log.
NextRules ==
    \/ \E v \in {"v2", "v3"} : OpUpsertCandidate(v)
    \/ \E rule \in RuleCatalogue : OpAddRule(rule)
    \/ \E n \in RuleNames : OpDeleteRule(n)
    \/ \E v \in {"v2", "v3"}, f \in {"none", "list", "record"} : OpEvaluate(v, f)
    \/ \E t \in 0..MaxClock : OpRecordRuleDecision("v2", TRUE, t)
    \/ Tick

SpecRules == Init /\ [][NextRules]_vars


(***************************************************************************)
(* Filter pass (RuleEngine.FilterPendingCandidates)                        *)
(***************************************************************************)
\* FilterPendingCandidates(limit): ListUnevaluatedCandidates(limit), then
\* EvaluateBatch.  listOk: the listing succeeds; failAt: the position in the
\* batch whose Evaluate fails (0: none).  The value is the set of outcomes
\* [decisions, passed, rejected, err] the call can have.
FilterPendingCandidates(limit, listOk, failAt) ==
    IF ~listOk
    THEN {[decisions |-> rule_decisions, passed |-> <<>>, rejected |-> <<>>,
           err |-> TRUE]}
    ELSE {EvaluateBatch(rule_decisions,
                        [i \in 1..Len(batch) |-> video_candidates[batch[i]]],
                        failAt) :
            batch \in ListUnevaluatedCandidates(limit)}

\* engine.FilterPendingCandidates(limit).  lastOp keeps what the call
\* returned (the lengths of passed and rejected, err), the rows it recorded,
\* the unevaluated pending candidates it found in the store, and whether the
\* call before it was a FilterPendingCandidates with the same limit that
\* returned without error (repeat), and that on at most limit unevaluated
\* candidates (settled).
OpFilterPending(limit, listOk, failAt) ==
    \E r \in FilterPendingCandidates(limit, listOk, failAt) :
        /\ Len(r.decisions) <= MaxDecisions
        /\ rule_decisions' = r.decisions
        /\ lastOp' = [op |-> "filter_pending", video_id |-> "", err |-> r.err,
                      limit |-> limit,
                      passed |-> Len(r.passed), rejected |-> Len(r.rejected),
                      recorded |-> Len(r.decisions) - Len(rule_decisions),
                      pending |-> Cardinality(UnevaluatedRows),
                      repeat |-> (/\ lastOp.op = "filter_pending"
                                  /\ lastOp.limit = limit
                                  /\ ~lastOp.err),
                      settled |-> (/\ lastOp.op = "filter_pending"
                                   /\ lastOp.limit = limit
                                   /\ ~lastOp.err
                                   /\ (limit < 0 \/ lastOp.pending <= limit)),
                      first |-> IF lastOp.op = "filter_pending"
                                THEN lastOp.recorded ELSE 0]
        /\ UNCHANGED <<uploads, channels, video_candidates, filter_rules, now,
                       ctlVars>>

\* Discovery and filter passes: candidates arrive by upsert and by scans of
\* chA, rules are added, and filter passes, single evaluations and
\* auto-filtering scans record decisions.
NextFilter ==
    \/ \E v \in Videos : OpUpsertCandidate(v)
    \/ \E rule \in RuleCatalogue : OpAddRule(rule)
    \/ \E l \in (-1)..MaxLimit, k \in 0..1 : OpFilterPending(l, TRUE, k)
    \/ OpFilterPending(MaxLimit, FALSE, 0)
    \/ \E f \in {"none", "record"} : OpEvaluate("v2", f)
    \/ OpAddChannel("chA")
    \/ \E l \in {1, MaxLimit}, ok \in BOOLEAN : OpScanChannel("chA", l, TRUE, ok)

SpecFilter == Init /\ [][NextFilter]_vars

(***************************************************************************)
(* Re-discovery of a candidate                                             *)
(***************************************************************************)
\* store.UpsertCandidate(vc) for the candidate the scanner builds from the
\* metadata of v as a scan of channelID reports it, with the view count
\* and the upload date the upstream gives at that time.  lastOp keeps the
\* candidate passed in and the row the store held for the video before.
OpUpsertCandidateOf(v, channelID, views, uploadDate) ==
    LET vc == CandidateOf([VideoMeta(v) EXCEPT !.view_count = views,
                                               !.upload_date = uploadDate],
                          channelID)
    IN /\ video_candidates' = UpsertCandidate(video_candidates, vc)
       /\ lastOp' = [op |-> "upsert_candidate_of", video_id |-> v, err |-> FALSE,
                     candidate |-> vc, before |-> video_candidates[v]]
       /\ UNCHANGED <<uploads, channels, filter_rules, rule_decisions, now, ctlVars>>

NextCandidates ==
    \/ \E c \in ChannelIDs, views \in {100, 5000}, d \in {"D-1", "D-30"} :
            OpUpsertCandidateOf("v1", c, views, d)
    \/ OpUpsertCandidate("v2")
    \/ Tick

SpecCandidates == Init /\ [][NextCandidates]_vars

(***************************************************************************)
(* Channel administration and sweeps                                       *)
(***************************************************************************)
\* store.AddChannel(channel c with IsActive = active)
OpAddChannelWith(c, active) ==
    /\ channels' = AddChannel([channel_id |-> c, name |-> c, url |-> c,
                               subscriber_count |-> 0, video_count |-> 0,
                               scan_frequency_hours |-> 6, is_active |-> active])
    /\ lastOp' = StoreCall
    /\ UNCHANGED <<uploads, video_candidates, filter_rules, rule_decisions,
                   now, ctlVars>>

\* store.DeactivateChannel(c)
OpDeactivateChannel(c) ==
    /\ channels' = DeactivateChannel(c)
    /\ lastOp' = StoreCall
    /\ UNCHANGED <<uploads, video_candidates, filter_rules, rule_decisions,
                   now, ctlVars>>

\* scanner.ScanAllActive(defaultLimit) with AutoFilter = autoFilter.  listOk:
\* ListActiveChannels succeeds; fetchOk[c]: the metadata call for c succeeds;
\* failed: the videos whose upsert fails.  lastOp keeps the arguments, the error returned and the channels that
\* were active when the sweep started.
OpScanAllActive(defaultLimit, autoFilter, listOk, fetchOk, failed) ==
    \E st \in IF listOk THEN ScanAllActive(defaultLimit, autoFilter, fetchOk, failed)
              ELSE {[cands |-> video_candidates, chans |-> channels,
                     decisions |-> rule_decisions]} :
        /\ Len(st.decisions) <= MaxDecisions
        /\ video_candidates' = st.cands
        /\ channels' = st.chans
        /\ rule_decisions' = st.decisions
        /\ lastOp' = [op |-> "scan_all_active", video_id |-> "", err |-> ~listOk,
                      limit |-> defaultLimit, fetchOk |-> fetchOk,
                      autoFilter |-> autoFilter, failed |-> failed,
                      active |-> {c \in ChannelIDs : /\ channels[c] # NoRow
                                                     /\ channels[c].is_active}]
        /\ UNCHANGED <<uploads, filter_rules, now, ctlVars>>

\* Channels are added (active or not), deactivated and swept.
NextScan ==
    \/ \E c \in ChannelIDs, a \in BOOLEAN : OpAddChannelWith(c, a)
    \/ \E c \in ChannelIDs : OpDeactivateChannel(c)
    \/ \E l \in {0, 1, MaxLimit}, a \in BOOLEAN,
          f \in [ChannelIDs -> BOOLEAN], x \in {{}, {"v1"}} :
            OpScanAllActive(l, a, TRUE, f, x)
    \/ OpScanAllActive(MaxLimit, FALSE, FALSE, [c \in ChannelIDs |-> TRUE], {})

SpecScan == Init /\ [][NextScan]_vars

\* scanner.ScanChannel(c, limit) with AutoFilter off, with what the call
\* returned and left: count, ids (the candidates in the store), scanned (the
\* channel's last_scanned_at), at (the time of the call).  repeat: the call
\* before was a scan of the same channel with the same limit, both returned
\* without error and no upsert failed in either; first is what that call left.
OpRescanChannel(c, limit, fetchOk, failed) ==
    \E r \in ScanChannel([cands |-> video_candidates, chans |-> channels,
                          decisions |-> rule_decisions],
                         c, limit, FALSE, fetchOk, failed, 0) :
        /\ channels[c] # NoRow
        /\ video_candidates' = r.cands
        /\ channels' = r.chans
        /\ lastOp' = [op |-> "rescan_channel", video_id |-> "", err |-> r.err,
                      channel |-> c, limit |-> limit, failed |-> failed,
                      count |-> r.count,
                      ids |-> {v \in Videos : r.cands[v] # NoRow},
                      scanned |-> r.chans[c].last_scanned_at, at |-> now,
                      repeat |-> /\ lastOp.op = "rescan_channel"
                                 /\ lastOp.channel = c
                                 /\ lastOp.limit = limit
                                 /\ ~lastOp.err /\ ~r.err
                                 /\ lastOp.failed = {} /\ failed = {},
                      first |-> IF lastOp.op = "rescan_channel"
                                THEN [count |-> lastOp.count, ids |-> lastOp.ids,
                                      scanned |-> lastOp.scanned, at |-> lastOp.at]
                                ELSE [count |-> 0, ids |-> {},
                                      scanned |-> NullTime, at |-> 0]]
        /\ UNCHANGED <<uploads, filter_rules, rule_decisions, now, ctlVars>>

\* Time passes between two calls.
Wait ==
    /\ now < MaxClock
    /\ now' = now + 1
    /\ UNCHANGED <<storeVars, ctlVars, lastOp>>

\* Scans and rescans of the watched channel chA, beside a candidate of
\* another channel.
NextRescan ==
    \/ OpAddChannel("chA")
    \/ OpUpsertCandidate("v3")
    \/ \E c \in {"chA"}, l \in {0, 1, MaxLimit}, ok \in BOOLEAN, x \in {{}, {"v1"}} :
            OpRescanChannel(c, l, ok, x)
    \/ Wait

SpecRescan == Init /\ [][NextRescan]_vars

(***************************************************************************)
(* Threshold rules at their boundaries                                     *)
(***************************************************************************)
\* The min, max and age_days rules of DefaultRules, one of each type.
ThresholdRules ==
    {[rule_name |-> "min_views", rule_type |-> "min", field |-> "view_count",
      value |-> "1000", is_active |-> TRUE, priority |-> 100],
     [rule_name |-> "max_age_days", rule_type |-> "age_days", field |-> "published_at",
      value |-> "30", is_active |-> TRUE, priority |-> 90],
     [rule_name |-> "max_duration", rule_type |-> "max", field |-> "duration_seconds",
      value |-> "3600", is_active |-> TRUE, priority |-> 80]}

\* store.UpsertCandidate(the candidate the scanner builds for v when the
\* Fetcher reports value for field and v's other metadata unchanged).
OpUpsertWith(v, field, value) ==
    /\ video_candidates' =
            UpsertCandidate(video_candidates,
                            CandidateOf([VideoMeta(v) EXCEPT ![field] = value],
                                        ChannelOf(v)))
    /\ lastOp' = StoreCall
    /\ UNCHANGED <<uploads, channels, filter_rules, rule_decisions, now, ctlVars>>

\* One candidate moved around the thresholds of the rules, one field at a
\* time, and evaluated.
NextBoundary ==
    \/ \E rule \in ThresholdRules : OpAddRule(rule)
    \/ \E views \in {999, 1000, 1001} : OpUpsertWith("v1", "view_count", views)
    \/ \E d \in {3599, 3600, 3601} : OpUpsertWith("v1", "duration", d)
    \/ \E date \in {"D-29", "D-30", "D-31"} : OpUpsertWith("v1", "upload_date", date)
    \/ OpEvaluate("v1", "none")
    \/ Tick

SpecBoundary == Init /\ [][NextBoundary]_vars

(***************************************************************************)
(* Rules the engine cannot apply                                           *)
(***************************************************************************)
\* Rules with a type the engine does not know, with a field their type does
\* not read, or with a value their type cannot parse.
OddRules ==
    {[rule_name |-> "odd_type", rule_type |-> "contains", field |-> "title",
      value |-> "Sponsored", is_active |-> TRUE, priority |-> 100]}
    \cup
    {[rule_name |-> "odd_field", rule_type |-> t.type, field |-> t.field,
      value |-> t.value, is_active |-> TRUE, priority |-> 90] :
        t \in {[type |-> "min", field |-> "subscriber_count", value |-> "1000"],
               [type |-> "regex", field |-> "tags", value |-> "(?i)sponsored"],
               [type |-> "blocklist", field |-> "title",
                value |-> "[\"News & Politics\"]"],
               [type |-> "max", field |-> "duration", value |-> "60"]}}
    \cup
    {[rule_name |-> "bad_value", rule_type |-> t.type, field |-> t.field,
      value |-> t.value, is_active |-> TRUE, priority |-> 80] :
        t \in {[type |-> "min", field |-> "view_count", value |-> "many"],
               [type |-> "regex", field |-> "title", value |-> "("],
               [type |-> "blocklist", field |-> "category", value |-> "News"],
               [type |-> "age_days", field |-> "published_at", value |-> "soon"]}}

\* engine.Evaluate(the stored candidate v), with the store call that failed.
OpEvaluateWith(v, failure) ==
    /\ video_candidates[v] # NoRow
    /\ Len(rule_decisions) < MaxDecisions
    /\ LET r == Evaluate(rule_decisions, video_candidates[v], failure)
       IN /\ rule_decisions' = r.decisions
          /\ lastOp' = [op |-> "evaluate_with", video_id |-> v, err |-> r.err,
                        failure |-> failure]
    /\ UNCHANGED <<uploads, channels, video_candidates, filter_rules, now, ctlVars>>

NextLenient ==
    \/ \E rule \in OddRules \cup {r \in RuleCatalogue : r.rule_name = "min_views"} :
            OpAddRule(rule)
    \/ \E v \in Videos : OpUpsertCandidate(v)
    \/ \E v \in Videos, f \in {"none", "list", "record"} : OpEvaluateWith(v, f)

SpecLenient == Init /\ [][NextLenient]_vars

(***************************************************************************)
(* Blocklists                                                              *)
(***************************************************************************)
\* blocked_categories of DefaultRules, a second list of categories and a
\* list of channels.
BlocklistRules ==
    {[rule_name |-> "blocked_categories", rule_type |-> "blocklist",
      field |-> "category", value |-> val, is_active |-> TRUE, priority |-> 70] :
        val \in {"[\"News & Politics\"]", "[\"Gaming\",\"Music\"]"}}
    \cup
    {[rule_name |-> "blocked_channels", rule_type |-> "blocklist",
      field |-> "channel_id", value |-> "[\"CHA\"]", is_active |-> TRUE,
      priority |-> 60]}

\* A candidate of chA whose category is written in several cases and a
\* candidate of chB, evaluated under blocklists.
NextBlocklist ==
    \/ \E rule \in BlocklistRules : OpAddRule(rule)
    \/ \E n \in {"blocked_categories", "blocked_channels"} : OpDeleteRule(n)
    \/ \E cat \in {"news & politics", "NEWS & POLITICS", "GAMING", "Education"} :
            OpUpsertWith("v1", "categories", <<cat>>)
    \/ OpUpsertCandidate("v3")
    \/ \E v \in {"v1", "v3"} : OpEvaluate(v, "none")

SpecBlocklist == Init /\ [][NextBlocklist]_vars

(***************************************************************************)
(* Rule administration                                                     *)
(***************************************************************************)
\* engine.SeedDefaultRules(); before is the table the call found, repeat
\* says that the call before was a seeding that returned without error.
OpSeedDefaultRules(failAt) ==
    /\ filter_rules' = SeedDefaultRules(failAt).rules
    /\ lastOp' = [op |-> "seed_default_rules", video_id |-> "",
                  err |-> SeedDefaultRules(failAt).err, before |-> filter_rules,
                  repeat |-> (lastOp.op = "seed_default_rules" /\ ~lastOp.err)]
    /\ UNCHANGED <<uploads, channels, video_candidates, rule_decisions, now, ctlVars>>

\* store.UpdateRule(ruleName, value)
OpUpdateRule(ruleName, value) ==
    /\ filter_rules' = UpdateRule(ruleName, value)
    /\ lastOp' = StoreCall
    /\ UNCHANGED <<uploads, channels, video_candidates, rule_decisions, now, ctlVars>>

\* The rules an operator writes under the names min_views and max_duration:
\* two definitions for each name, each active or not.
AdminRules ==
    {[rule_name |-> n, rule_type |-> t.type, field |-> t.field, value |-> t.value,
      is_active |-> a, priority |-> t.priority] :
        n \in {"min_views", "max_duration"}, a \in BOOLEAN,
        t \in {[type |-> "min", field |-> "view_count", value |-> "1000",
                priority |-> 100],
               [type |-> "max", field |-> "duration_seconds", value |-> "3600",
                priority |-> 80]}}

\* store.AddRule(rule); before is the row the name had, deleted the row a
\* DeleteRule of the same name removed just before (NoRow: there was none).
OpAddRuleOver(rule) ==
    /\ filter_rules' = AddRule(rule)
    /\ lastOp' = [op |-> "add_rule", video_id |-> "", err |-> FALSE, rule |-> rule,
                  before |-> filter_rules[rule.rule_name],
                  deleted |-> IF lastOp.op = "delete_rule"
                                  /\ lastOp.rule_name = rule.rule_name
                              THEN lastOp.before ELSE NoRow]
    /\ UNCHANGED <<uploads, channels, video_candidates, rule_decisions, now, ctlVars>>

\* store.DeleteRule(ruleName); before is the row it removed.
OpDeleteRuleOf(ruleName) ==
    /\ filter_rules' = DeleteRule(ruleName)
    /\ lastOp' = [op |-> "delete_rule", video_id |-> "", err |-> FALSE,
                  rule_name |-> ruleName, before |-> filter_rules[ruleName]]
    /\ UNCHANGED <<uploads, channels, video_candidates, rule_decisions, now, ctlVars>>

NextAdmin ==
    \/ \E rule \in AdminRules : OpAddRuleOver(rule)
    \/ \E n \in {"min_views", "max_duration"} : OpDeleteRuleOf(n)
    \/ \E n \in {"min_views", "max_duration"} : OpUpdateRule(n, "60")

SpecAdmin == Init /\ [][NextAdmin]_vars

\* What an operator does to the rules between seedings: min_views is
\* deactivated or replaced, max_age_days gets another value, rules are deleted.
NextSeed ==
    \/ \E k \in 0..Len(DefaultRules) : OpSeedDefaultRules(k)
    \/ \E rule \in RuleCatalogue : OpAddRule(rule)
    \/ \E val \in {"60", "1000"} : OpUpdateRule("max_age_days", val)
    \/ \E n \in {"min_views", "max_age_days", "blocked_categories"} : OpDeleteRule(n)

SpecSeed == Init /\ [][NextSeed]_vars

(***************************************************************************)
(* Listings                                                                *)
(***************************************************************************)
\* store.ListFilteredCandidates(limit): a read; result is what it returned.
OpListFiltered(limit) ==
    /\ \E s \in ListFilteredCandidates(limit) :
            lastOp' = [op |-> "list_filtered", video_id |-> "", err |-> FALSE,
                       limit |-> limit, result |-> s]
    /\ UNCHANGED <<storeVars, now, ctlVars>>

\* Candidates are stored, decided on (passing or rejecting), uploaded and
\* listed.
NextLists ==
    \/ \E v \in Videos : OpUpsertCandidate(v)
    \/ \E v \in {"v1", "v2"} : OpMarkUploaded(v, "")
    \/ \E v \in {"v1", "v3"}, passed \in BOOLEAN : OpRecordRuleDecision(v, passed, now)
    \/ \E l \in 0..MaxLimit : OpListFiltered(l)

SpecLists == Init /\ [][NextLists]_vars

(***************************************************************************)
(* Decision log                                                            *)
(***************************************************************************)
\* Every operation that runs beside the decision log: rules are added,
\* changed and deleted, candidates stored again, evaluated again and marked
\* uploaded.
NextLog ==
    \/ \E v \in {"v2", "v3"} : OpUpsertCandidate(v)
    \/ \E rule \in RuleCatalogue : OpAddRule(rule)
    \/ \E val \in {"60", "1000"} : OpUpdateRule("min_views", val)
    \/ \E n \in {"min_views", "block_sponsored"} : OpDeleteRule(n)
    \/ \E v \in {"v2", "v3"} : OpEvaluate(v, "none")
    \/ \E v \in {"v2", "v3"} : OpMarkUploaded(v, "")

SpecLog == Init /\ [][NextLog]_vars

(***************************************************************************)
(* Platform ids of uploads                                                 *)
(***************************************************************************)
Bvids == {"", "BV1", "BV2"}

\* store.MarkUploadedWithBvid(v, channelID, bvid); before is the row the
\* call found.
OpMarkUploadedWithBvid(v, channelID, bvid) ==
    /\ uploads' = MarkUploadedWithBvid(v, channelID, bvid)
    /\ lastOp' = [op |-> "mark_uploaded", video_id |-> v, err |-> FALSE,
                  bvid |-> bvid, before |-> uploads[v]]
    /\ UNCHANGED <<channels, video_candidates, filter_rules, rule_decisions,
                   now, ctlVars>>

\* store.UpdateBilibiliBvid(v, bvid)
OpUpdateBilibiliBvid(v, bvid) ==
    /\ uploads' = UpdateBilibiliBvid(v, bvid)
    /\ lastOp' = [op |-> "update_bvid", video_id |-> v, err |-> FALSE,
                  bvid |-> bvid, before |-> uploads[v]]
    /\ UNCHANGED <<channels, video_candidates, filter_rules, rule_decisions,
                   now, ctlVars>>

NextBvid ==
    \/ \E v \in {"v1", "v2"}, c \in {"", "chA"}, b \in Bvids :
            OpMarkUploadedWithBvid(v, c, b)
    \/ \E v \in {"v1", "v2"}, b \in Bvids : OpUpdateBilibiliBvid(v, b)
    \/ Tick

SpecBvid == Init /\ [][NextBvid]_vars

(***************************************************************************)
(* Channel rows                                                            *)
(***************************************************************************)
\* The channels a caller passes to AddChannel for chA.
ChannelInputs ==
    [channel_id : {"chA"}, name : {"", "A"}, url : {"u1", "u2"},
     subscriber_count : {0, 5}, video_count : {0, 3},
     scan_frequency_hours : {6}, is_active : BOOLEAN]

\* store.AddChannel(ch); before is the row the call found.
OpAddChannelRow(ch) ==
    /\ channels' = AddChannel(ch)
    /\ lastOp' = [op |-> "add_channel", video_id |-> "", err |-> FALSE,
                  ch |-> ch, before |-> channels[ch.channel_id]]
    /\ UNCHANGED <<uploads, video_candidates, filter_rules, rule_decisions,
                   now, ctlVars>>

\* store.DeactivateChannel(c)
OpDeactivateChannelOf(c) ==
    /\ channels' = DeactivateChannel(c)
    /\ lastOp' = [op |-> "deactivate_channel", video_id |-> "", err |-> FALSE,
                  channel_id |-> c, before |-> channels[c]]
    /\ UNCHANGED <<uploads, video_candidates, filter_rules, rule_decisions,
                   now, ctlVars>>

\* store.UpdateChannelScanned(c)
OpUpdateChannelScanned(c) ==
    /\ channels' = UpdateChannelScanned(channels, c)
    /\ lastOp' = StoreCall
    /\ UNCHANGED <<uploads, video_candidates, filter_rules, rule_decisions,
                   now, ctlVars>>

\* A channel is added again and again with other names, urls and counts.
NextChannels ==
    \/ \E ch \in ChannelInputs : OpAddChannelRow(ch)
    \/ OpDeactivateChannelOf("chA")

SpecChannels == Init /\ [][NextChannels]_vars

\* A channel is added, scanned, deactivated and added again while its
\* candidate is stored and evaluated.
NextReAdd ==
    \/ \E ch \in {i \in ChannelInputs : i.name = "A" /\ i.url = "u1" /\
                                         i.subscriber_count = 5 /\ i.video_count = 0} :
            OpAddChannelRow(ch)
    \/ OpDeactivateChannelOf("chA")
    \/ OpUpdateChannelScanned("chA")
    \/ OpUpsertCandidate("v1")
    \/ OpEvaluate("v1", "none")
    \/ Tick

SpecReAdd == Init /\ [][NextReAdd]_vars

(***************************************************************************)
(* Derived metrics of candidates                                           *)
(***************************************************************************)
\* store.UpdateCandidateMetrics(v, views, likes, comments)
OpUpdateCandidateMetrics(v, views, likes, comments) ==
    /\ video_candidates' = UpdateCandidateMetrics(v, views, likes, comments)
    /\ lastOp' = [op |-> "update_candidate_metrics", video_id |-> v, err |-> FALSE]
    /\ UNCHANGED <<uploads, channels, filter_rules, rule_decisions, now, ctlVars>>

\* Candidates are written by scans, by upserts of what the scanner builds and
\* by metric updates.
NextMetrics ==
    \/ OpAddChannel("chA")
    \/ \E l \in {1, MaxLimit} : OpScanChannel("chA", l, FALSE, TRUE)
    \/ \E v \in {"v1", "v3"} : OpUpsertCandidate(v)
    \/ \E v \in {"v1", "v2"}, views \in {0, 5000}, likes \in {0, 200}, comments \in {50} :
            OpUpdateCandidateMetrics(v, views, likes, comments)
    \/ Tick

SpecMetrics == Init /\ [][NextMetrics]_vars

(***************************************************************************)
(* Scans with the auto-filter                                              *)
(***************************************************************************)
\* scanner.ScanChannel(c, limit) with AutoFilter = autoFilter.  fetchOk: the
\* metadata call succeeds; failed: the videos whose upsert fails.  lastOp
\* keeps the arguments, what the call returned, the ids whose upsert
\* succeeded and the store the call found.
OpScan(c, limit, autoFilter, fetchOk, failed) ==
    \E r \in ScanChannel([cands |-> video_candidates, chans |-> channels,
                          decisions |-> rule_decisions],
                         c, limit, autoFilter, fetchOk, failed, 0) :
        /\ Len(r.decisions) <= MaxDecisions
        /\ video_candidates' = r.cands
        /\ channels' = r.chans
        /\ rule_decisions' = r.decisions
        /\ lastOp' = [op |-> "scan", video_id |-> "", err |-> r.err,
                      channel |-> c, limit |-> limit, auto |-> autoFilter,
                      fetchOk |-> fetchOk, failed |-> failed, count |-> r.count,
                      written |-> IF channels[c] = NoRow THEN {}
                                  ELSE LET m == GetChannelVideosMetadata(
                                                    channels[c].url, limit, fetchOk)
                                       IN {m.videos[i].id : i \in 1..Len(m.videos)}
                                            \ failed,
                      before |-> [cands |-> video_candidates, chans |-> channels,
                                  decisions |-> rule_decisions],
                      at |-> now]
        /\ UNCHANGED <<uploads, filter_rules, now, ctlVars>>

\* chA is scanned with and without the auto-filter while v3 is a candidate
\* of chA or of chB from an earlier upsert.
NextAutoFilter ==
    \/ OpAddChannel("chA")
    \/ \E c \in ChannelIDs : OpUpsertCandidateOf("v3", c, 0, "D-31")
    \/ \E l \in {1, MaxLimit}, a \in BOOLEAN, x \in {{}, {"v1"}} :
            OpScan("chA", l, a, TRUE, x)
    \/ Tick

SpecAutoFilter == Init /\ [][NextAutoFilter]_vars

\* Uploads beside scans and filter passes: a candidate of chA is marked
\* uploaded and the channel is scanned again.
NextTerminal ==
    \/ OpAddChannel("chA")
    \/ \E v \in {"v1", "v2"} : OpMarkUploaded(v, "chA")
    \/ \E l \in {1, MaxLimit}, a \in BOOLEAN : OpScan("chA", l, a, TRUE, {})
    \/ \E a \in BOOLEAN :
            OpScanAllActive(MaxLimit, a, TRUE, [c \in ChannelIDs |-> TRUE], {})
    \/ \E l \in {1, MaxLimit} : OpFilterPending(l, TRUE, 0)

SpecTerminal == Init /\ [][NextTerminal]_vars

(***************************************************************************)
(* Filter passes after rule changes                                        *)
(***************************************************************************)
\* Rules are added, changed and deleted between filter passes while
\* candidates arrive.
NextRefilter ==
    \/ \E v \in {"v1", "v2"} : OpUpsertCandidate(v)
    \/ \E rule \in {r \in RuleCatalogue : r.is_active} : OpAddRule(rule)
    \/ \E val \in {"60", "1000"} : OpUpdateRule("min_views", val)
    \/ \E n \in {"min_views", "block_sponsored"} : OpDeleteRule(n)
    \/ \E l \in {1, MaxLimit} : OpFilterPending(l, TRUE, 0)

SpecRefilter == Init /\ [][NextRefilter]_vars

(***************************************************************************)
(* Filter passes that meet a store failure                                 *)
(***************************************************************************)
\* failAt is the position in the batch whose Evaluate fails (0: none).
NextBatch ==
    \/ \E v \in Videos : OpUpsertCandidate(v)
    \/ \E rule \in {r \in RuleCatalogue : r.is_active /\ r.rule_name = "min_views"} :
            OpAddRule(rule)
    \/ \E l \in {1, MaxLimit}, k \in 0..2 : OpFilterPending(l, TRUE, k)

SpecBatch == Init /\ [][NextBatch]_vars

(***************************************************************************)
(* Scans that meet failures                                                *)
(***************************************************************************)
\* chA is in the store once added, chB never is; the metadata call and the
\* upserts of a scan may fail.
NextScanFail ==
    \/ OpAddChannel("chA")
    \/ \E l \in {0, 1, MaxLimit}, a \in BOOLEAN, ok \in BOOLEAN,
          x \in {{}, {"v1"}, {"v1", "v2"}} :
            OpScan("chA", l, a, ok, x)
    \/ \E a \in BOOLEAN : OpScan("chB", MaxLimit, a, TRUE, {})
    \/ Tick

SpecScanFail == Init /\ [][NextScanFail]_vars

(***************************************************************************)
(* Rules of equal priority                                                 *)
(***************************************************************************)
\* Three rules that reject v2 or v3, each at one of two priorities.
TieRules ==
    {[rule_name |-> "min_views", rule_type |-> "min", field |-> "view_count",
      value |-> "1000", is_active |-> TRUE, priority |-> p] : p \in {50, 100}}
    \cup
    {[rule_name |-> "block_sponsored", rule_type |-> "regex", field |-> "title",
      value |-> "(?i)sponsored", is_active |-> a, priority |-> p] :
        a \in BOOLEAN, p \in {50, 100}}
    \cup
    {[rule_name |-> "max_duration", rule_type |-> "max", field |-> "duration_seconds",
      value |-> "3600", is_active |-> TRUE, priority |-> p] : p \in {50, 100}}

NextTies ==
    \/ \E v \in {"v2", "v3"} : OpUpsertCandidate(v)
    \/ \E rule \in TieRules : OpAddRule(rule)
    \/ \E n \in {"min_views", "block_sponsored", "max_duration"} : OpDeleteRule(n)
    \/ \E v \in {"v2", "v3"} : OpEvaluate(v, "none")

SpecTies == Init /\ [][NextTies]_vars

(***************************************************************************)
(* Draining the unevaluated candidates                                     *)
(***************************************************************************)
\* One filter pass with a limit of at least 1 and no store failure.
DrainStep == \E l \in 1..MaxLimit : OpFilterPending(l, TRUE, 0)

\* Candidates and a rule arrive until the first filter pass; from then on
\* only filter passes run.
NextDrain ==
    \/ lastOp.op # "filter_pending" /\ \E v \in {"v1", "v2"} : OpUpsertCandidate(v)
    \/ /\ lastOp.op # "filter_pending"
       /\ \E rule \in {r \in RuleCatalogue : r.is_active /\ r.rule_name = "min_views"} :
            OpAddRule(rule)
    \/ lastOp.op # "filter_pending" /\ Tick
    \/ DrainStep

SpecDrain == Init /\ [][NextDrain]_vars

\* The caller goes on calling filter_pending_candidates while a call still
\* changes something.
SpecDrainLive == SpecDrain /\ WF_vars(DrainStep)

(***************************************************************************)
(* Properties of the controller                                            *)
(***************************************************************************)
\* The ids of the call c before position k that were not uploaded when the
\* call started.
NewBefore(c, k) == {j \in 1..(k - 1) : c.ids[j] \notin c.pre}

\* C2: for any interleaving of sync calls that cover the same video id the
\* Publisher is successfully invoked for that id at most once, and a sync
\* call that starts when the id has an uploads row never downloads or
\* publishes it.
C2_PublishedAtMostOnce ==
    /\ \A v \in Videos : uploadedFiles[v] <= 1
    /\ \A p \in Procs :
            ctl[p].pc \in {"download", "publish", "mark"} =>
                ctl[p].ids[ctl[p].i] \notin ctl[p].pre

\* C3 as stated: a sync_channel(id, N) that repeats a successful
\* sync_channel(id, N) on the same upstream returns skipped = N,
\* downloaded = 0, uploaded = 0 and no error.
C3_RepeatSkipsN ==
    \A p \in Procs :
        (ctl[p].pc = "done" /\ ctl[p].repeat /\ ctl[p].err # "list") =>
            /\ ctl[p].err = "none"
            /\ ctl[p].skipped = ctl[p].limit
            /\ ctl[p].downloaded = 0
            /\ ctl[p].uploaded = 0

\* C3 amended: the repeated call returns skipped = considered = the number of
\* ids the Fetcher lists (min(N, ids of the channel)), downloaded = 0,
\* uploaded = 0 and no error.
C3_RepeatSkipsAll ==
    \A p \in Procs :
        (ctl[p].pc = "done" /\ ctl[p].repeat /\ ctl[p].err # "list") =>
            /\ ctl[p].err = "none"
            /\ ctl[p].skipped = ctl[p].considered
            /\ ctl[p].considered =
                    Min(ctl[p].limit, Len(channelVideos[ctl[p].channel_id]))
            /\ ctl[p].downloaded = 0
            /\ ctl[p].uploaded = 0
            /\ uploadedFiles = ctl[p].preFiles

C3_Witness ==
    \E p \in Procs : /\ ctl[p].pc = "done" /\ ctl[p].repeat
                     /\ ctl[p].err = "none" /\ ctl[p].skipped = 2
                     /\ ctl[p].limit = 3

\* The state part of C4.
PublishFailureState ==
    /\ \A p \in Procs :
            (ctl[p].pc = "done" /\ ctl[p].err = "publish") =>
                /\ ctl[p].ids[ctl[p].i] \in publishFailed
                /\ (uploadedFiles[ctl[p].ids[ctl[p].i]] = 0
                        => ~IsUploaded(ctl[p].ids[ctl[p].i]))
    /\ \A v \in Videos : (uploadedFiles[v] = 0) => GetUpload(v) = NoRow
    /\ \A v \in Videos :
            (uploadedFiles[v] > 0 /\ NoneRunning) => GetUpload(v) # NoRow

\* The step part of C4.
PublishFailureStep ==
    \A p \in Procs :
        /\ (ctl[p].pc = "publish" /\ ctl'[p].err = "publish") =>
                /\ ctl'[p].pc = "done"
                /\ uploads' = uploads
        /\ (/\ ctl[p].pc = "check"
            /\ ctl[p].ids[ctl[p].i] \in publishFailed
            /\ uploadedFiles[ctl[p].ids[ctl[p].i]] = 0
            /\ ctl'[p] # ctl[p]) =>
                /\ ctl'[p].pc = "download"
                /\ ctl'[p].skipped = ctl[p].skipped

\* C4: a failed publish surfaces the error and writes no uploads row; while
\* no publish of that id has succeeded every sync that reaches the id goes
\* on to download it (never skips it); a successful publish is followed by
\* the mark, so a finished call leaves every published id uploaded.
C4_PublishFailureRetried ==
    []PublishFailureState /\ [][PublishFailureStep]_vars

C4_Witness ==
    \E p \in Procs :
        /\ ctl[p].pc = "done" /\ ctl[p].err = "none"
        /\ ctl[p].ids[ctl[p].i] \in publishFailed
        /\ ctl[p].uploaded > 0
        /\ GetUpload(ctl[p].ids[ctl[p].i]) # NoRow

C6_DownloadFailureAborts ==
    \A p \in Procs :
        LET c == ctl[p] IN
        (c.pc = "done" /\ c.op = "channel" /\ c.err = "download") =>
            /\ c.considered = Len(c.ids)
            /\ c.skipped = Cardinality({j \in 1..(c.i - 1) : c.ids[j] \in c.pre})
            /\ c.downloaded = Cardinality(NewBefore(c, c.i))
            /\ c.uploaded = c.downloaded
            /\ \A j \in c.i..Len(c.ids) :
                    /\ uploadedFiles[c.ids[j]] = c.preFiles[c.ids[j]]
                    /\ GetUpload(c.ids[j]) # NoRow <=> c.ids[j] \in c.pre
            /\ GetUpload(c.ids[c.i]) = NoRow
            /\ (c.i = 1 => c.downloaded = 0 /\ c.uploaded = 0)

C6_Witness ==
    \E p \in Procs :
        /\ ctl[p].pc = "done" /\ ctl[p].op = "channel"
        /\ ctl[p].err = "download" /\ ctl[p].i = 2 /\ ctl[p].skipped = 1

(***************************************************************************)
(* Properties of the store and the rule engine                             *)
(***************************************************************************)
\* C1: for every limit, no result of list_pending_candidates holds a video
\* that has an uploads row.
C1_PendingNeverUploaded ==
    \A limit \in (-1)..MaxLimit :
        \A s \in ListPendingCandidates(limit) :
            \A i \in 1..Len(s) : GetUpload(s[i]) = NoRow

C1_Witness ==
    /\ video_candidates["v1"] # NoRow /\ GetUpload("v1") # NoRow
    /\ video_candidates["v2"] # NoRow /\ GetUpload("v2") # NoRow
    /\ video_candidates["v3"] # NoRow
    /\ ctl["p1"].pc = "done" /\ ctl["p1"].uploaded = 1
    /\ rule_decisions # <<>>
    /\ ListPendingCandidates(MaxLimit) = {<<"v3">>}

\* C7: get_rule_decision returns the decision with the largest id among the
\* decisions of the video, also when decisions share evaluated_at.
C7_LatestByLargestId ==
    \A v \in Videos :
        \A d \in GetRuleDecision(v) : d = MaxIdDecision(v)

\* The videos a result of the list holds, for every result the query may give.
InEvery(results, v) == \A s \in results : \E i \in 1..Len(s) : s[i] = v
InNone(results, v) == \A s \in results : \A i \in 1..Len(s) : s[i] # v

\* C8: the decision get_rule_decision returns for a candidate is the one
\* list_filtered_candidates and list_rejected_candidates go by, and right
\* after an evaluate it is the decision that evaluate recorded.
C8_NewestAuthoritative ==
    /\ \A v \in Videos :
        video_candidates[v] # NoRow =>
            \A d \in GetRuleDecision(v) :
                IF d.rule_passed
                THEN /\ InNone(ListRejectedCandidates(-1), v)
                     /\ GetUpload(v) = NoRow => InEvery(ListFilteredCandidates(-1), v)
                ELSE /\ InEvery(ListRejectedCandidates(-1), v)
                     /\ InNone(ListFilteredCandidates(-1), v)
    /\ (lastOp.op = "evaluate" /\ ~lastOp.err) =>
            GetRuleDecision(lastOp.video_id) = {rule_decisions[Len(rule_decisions)]}

\* C9: a successful evaluate appends exactly one rule_decisions row, for
\* the video of the candidate, and changes no other table; an evaluate that
\* returns an error appends none.
C9_EvaluateAppendsOne ==
    [][lastOp'.op = "evaluate" =>
        /\ UNCHANGED <<uploads, channels, video_candidates, filter_rules>>
        /\ IF lastOp'.err
           THEN rule_decisions' = rule_decisions
           ELSE /\ Len(rule_decisions') = Len(rule_decisions) + 1
                /\ SubSeq(rule_decisions', 1, Len(rule_decisions)) = rule_decisions
                /\ rule_decisions'[Len(rule_decisions')].video_id = lastOp'.video_id
                /\ rule_decisions'[Len(rule_decisions')].id = Len(rule_decisions')]_vars

C9_Witness ==
    /\ lastOp.op = "evaluate" /\ ~lastOp.err
    /\ Len(rule_decisions) = 2
    /\ rule_decisions[1].video_id = lastOp.video_id
    /\ ~rule_decisions[1].rule_passed
    /\ rule_decisions[2].rule_passed
    /\ \A n \in RuleNames : filter_rules[n] # NoRow => ~filter_rules[n].is_active

\* The active rules that fail for the candidate.
FailingActive(candidate) ==
    {n \in RuleNames : /\ filter_rules[n] # NoRow
                       /\ filter_rules[n].is_active
                       /\ ~evaluateRule(filter_rules[n], candidate).passed}

\* C10: the decision evaluate records rejects iff some active rule fails for
\* the candidate, and then names a failing active rule that no failing
\* active rule has a higher priority than; inactive and deleted rules have
\* no part in it.
C10_RejectsByHighestPriority ==
    (lastOp.op = "evaluate" /\ ~lastOp.err) =>
        LET d == rule_decisions[Len(rule_decisions)]
            failing == FailingActive(video_candidates[lastOp.video_id])
        IN /\ d.rule_passed <=> failing = {}
           /\ ~d.rule_passed =>
                /\ d.reject_rule_name \in failing
                /\ \A m \in failing : filter_rules[m].priority
                                        <= filter_rules[d.reject_rule_name].priority

C10_Witness ==
    /\ lastOp.op = "evaluate" /\ ~lastOp.err /\ lastOp.video_id = "v2"
    /\ FailingActive(video_candidates["v2"]) = {"min_views", "block_sponsored"}
    /\ rule_decisions[Len(rule_decisions)].reject_rule_name = "min_views"

(***************************************************************************)
(* Properties of the filter pass, the candidates and the scanner           *)
(***************************************************************************)
\* C11 as stated: a filter_pending_candidates(N) that follows a successful
\* filter_pending_candidates(N) immediately returns zero passed and zero
\* rejected and records no decision, for any N and any store.
C11_SecondFilterEmpty ==
    (lastOp.op = "filter_pending" /\ lastOp.repeat) =>
        /\ lastOp.passed = 0
        /\ lastOp.rejected = 0
        /\ lastOp.recorded = 0

\* C11 amended: when the first call returned without error on a store with
\* at most N unevaluated pending candidates (or N negative, no limit), the
\* second call returns zero passed, zero rejected and records no decision.
C11_SecondFilterEmptyWhenSettled ==
    (lastOp.op = "filter_pending" /\ lastOp.settled) =>
        /\ lastOp.passed = 0
        /\ lastOp.rejected = 0
        /\ lastOp.recorded = 0
        /\ lastOp.pending = 0

C11_Witness ==
    /\ lastOp.op = "filter_pending" /\ lastOp.settled /\ ~lastOp.err
    /\ lastOp.first = 2 /\ lastOp.limit = 2
    /\ \E k \in 1..Len(rule_decisions) : ~rule_decisions[k].rule_passed

\* C12: after upsert_candidate(C) and then upsert_candidate(C') with the same
\* video_id, get_candidate returns discovered_at of the first insert and
\* every other field as in C'.
C12_UpsertRefreshesAllButDiscoveredAt ==
    (lastOp.op = "upsert_candidate_of" /\ lastOp.before # NoRow) =>
        GetCandidate(lastOp.video_id) =
            [lastOp.candidate EXCEPT !.discovered_at = lastOp.before.discovered_at]

\* C13: in every rule_decisions row the engine records (evaluate, the
\* batches of filter_pending_candidates and of the scanner's auto-filter),
\* rule_passed is false iff reject_rule_name and reject_reason are both
\* non-empty, and a passing row carries neither.
C13_RejectionCarriesNameAndReason ==
    \A k \in 1..Len(rule_decisions) :
        LET d == rule_decisions[k]
        IN /\ ~d.rule_passed <=> (d.reject_rule_name # "" /\ d.reject_reason # <<>>)
           /\ d.rule_passed => (d.reject_rule_name = "" /\ d.reject_reason = <<>>)

C13_Witness ==
    /\ Len(rule_decisions) = 2
    /\ rule_decisions[1].rule_passed
    /\ ~rule_decisions[2].rule_passed
    /\ rule_decisions[2].reject_rule_name = "block_sponsored"
    /\ lastOp.op \in {"filter_pending", "scan_channel"}

\* The positions of the decisions of video v in the log.
DecisionRowsOf(log, v) == {k \in 1..Len(log) : log[k].video_id = v}

\* C14: a scan_all_active leaves every channel that is not active when it
\* starts (deactivated, or added inactive) as it was: its row with
\* last_scanned_at, the candidates of its videos and their decisions.
C14_InactiveChannelNotSwept ==
    [][lastOp'.op = "scan_all_active" =>
        \A c \in ChannelIDs :
            (channels[c] = NoRow \/ ~channels[c].is_active) =>
                /\ channels'[c] = channels[c]
                /\ \A v \in Videos :
                    ChannelOf(v) = c =>
                        /\ video_candidates'[v] = video_candidates[v]
                        /\ DecisionRowsOf(rule_decisions', v)
                                = DecisionRowsOf(rule_decisions, v)]_vars

C14_Witness ==
    /\ lastOp.op = "scan_all_active" /\ ~lastOp.err
    /\ lastOp.limit = MaxLimit /\ lastOp.autoFilter /\ lastOp.failed = {}
    /\ lastOp.fetchOk = [c \in ChannelIDs |-> TRUE]
    /\ lastOp.active = {"chB"}
    /\ channels["chA"] # NoRow /\ ~channels["chA"].is_active
    /\ channels["chA"].last_scanned_at # NullTime
    /\ video_candidates["v1"] # NoRow
    /\ video_candidates["v2"] = NoRow
    /\ video_candidates["v3"] # NoRow
    /\ DecisionRowsOf(rule_decisions, "v3") # {}

\* C16: a scan_all_active whose listing of the active channels succeeds
\* returns no error, and every channel that was active and whose own scan
\* succeeds is scanned (its last_scanned_at is set and the videos it lists
\* are stored, but for the upserts that fail), whichever other channel or
\* upsert fails; it returns an error only when the listing fails.
C16_SweepGoesOn ==
    lastOp.op = "scan_all_active" =>
        IF lastOp.err
        THEN TRUE
        ELSE \A c \in lastOp.active :
                (lastOp.fetchOk[c] /\ lastOp.limit > 0) =>
                    /\ channels[c].last_scanned_at = <<now>>
                    /\ \A i \in 1..Min(lastOp.limit, Len(channelVideos[c])) :
                            channelVideos[c][i] \notin lastOp.failed =>
                                video_candidates[channelVideos[c][i]] # NoRow

C16_Witness ==
    /\ lastOp.op = "scan_all_active" /\ ~lastOp.err
    /\ lastOp.active = ChannelIDs
    /\ ~lastOp.fetchOk["chA"] /\ lastOp.fetchOk["chB"]
    /\ channels["chA"].last_scanned_at = NullTime
    /\ channels["chB"].last_scanned_at = <<now>>
    /\ video_candidates["v1"] = NoRow
    /\ video_candidates["v3"] # NoRow

\* C15: a scan of a channel that follows a scan of the same channel with the
\* same limit, both without failure, leaves the same set of candidate ids in
\* the store and returns the same count as the first, and each of the two
\* calls set last_scanned_at to the time of the call.
C15_RescanSameCandidates ==
    (lastOp.op = "rescan_channel" /\ lastOp.repeat) =>
        /\ lastOp.ids = lastOp.first.ids
        /\ lastOp.count = lastOp.first.count
        /\ lastOp.first.scanned = <<lastOp.first.at>>
        /\ channels[lastOp.channel].last_scanned_at = <<lastOp.at>>

\* A second scan of chA, later than the first, both returning two videos.
C15_Witness ==
    /\ lastOp.op = "rescan_channel" /\ lastOp.repeat
    /\ lastOp.channel = "chA"
    /\ lastOp.count = 2
    /\ lastOp.ids = {"v1", "v2"}
    /\ lastOp.first.at < lastOp.at
    /\ channels["chA"].last_scanned_at = <<now>>

\* C17: a sync_channel call with limit 0 returns without error, with
\* considered = skipped = downloaded = uploaded = 0, and leaves the uploads
\* table and the published files as they were.
C17_ZeroLimitNoEffects ==
    \A p \in Procs :
        (ctl[p].op = "channel" /\ ctl[p].pc = "done" /\ ctl[p].limit = 0) =>
            /\ ctl[p].err = "none"
            /\ ctl[p].considered = 0 /\ ctl[p].skipped = 0
            /\ ctl[p].downloaded = 0 /\ ctl[p].uploaded = 0
            /\ {v \in Videos : uploads[v] # NoRow} = ctl[p].pre
            /\ uploadedFiles = ctl[p].preFiles

\* C18: a sync_channel call that ends with the Publisher's error counts the
\* video whose publish failed as downloaded and not as uploaded: the video
\* was pending, downloaded is uploaded + 1, uploaded counts the pending ids
\* before it, and for a channel with one pending video downloaded = 1 and
\* uploaded = 0.
C18_PublishFailureCounts ==
    \A p \in Procs :
        (ctl[p].op = "channel" /\ ctl[p].pc = "done" /\ ctl[p].err = "publish") =>
            LET c == ctl[p]
                pendingUpTo(n) == {j \in 1..n : c.ids[j] \notin c.pre}
            IN /\ c.ids[c.i] \notin c.pre
               /\ c.downloaded = c.uploaded + 1
               /\ c.uploaded = Cardinality(pendingUpTo(c.i - 1))
               /\ (Cardinality(pendingUpTo(Len(c.ids))) = 1 =>
                        c.downloaded = 1 /\ c.uploaded = 0)

\* sync_channel("chA", 2) with v1 uploaded before: v1 is skipped, the
\* publish of v2 fails.
C18_Witness ==
    /\ ctl["p1"].op = "channel" /\ ctl["p1"].pc = "done"
    /\ ctl["p1"].err = "publish"
    /\ ctl["p1"].ids = <<"v1", "v2">>
    /\ ctl["p1"].pre = {"v1"}
    /\ ctl["p1"].skipped = 1
    /\ ctl["p1"].downloaded = 1 /\ ctl["p1"].uploaded = 0
    /\ uploads["v2"] = NoRow

(***************************************************************************)
(* Properties of the rule functions                                        *)
(***************************************************************************)
\* The whole days elapsed since the candidate was published.
ElapsedDays(candidate) == (now - candidate.published_at[1]) \div 24

\* The candidate sits exactly on the threshold of the rule.
AtThreshold(rule, candidate) ==
    CASE rule.rule_type \in {"min", "max"} ->
            /\ ParseFloat(rule.value).ok
            /\ NumericField(rule.field, candidate).ok
            /\ RatEq(NumericField(rule.field, candidate).v, ParseFloat(rule.value).v)
      [] rule.rule_type = "age_days" ->
            /\ Atoi(rule.value).ok
            /\ candidate.published_at # NullTime
            /\ ElapsedDays(candidate) = Atoi(rule.value).v
      [] OTHER -> FALSE

\* The candidate is one unit on the wrong side of the threshold: T - 1 for a
\* min rule, T + 1 for a max rule, T + 1 whole days for an age rule.
PastThreshold(rule, candidate) ==
    CASE rule.rule_type = "min" ->
            /\ ParseFloat(rule.value).ok
            /\ NumericField(rule.field, candidate).ok
            /\ RatEq(NumericField(rule.field, candidate).v,
                     Rat(ParseFloat(rule.value).v.n - ParseFloat(rule.value).v.d,
                         ParseFloat(rule.value).v.d))
      [] rule.rule_type = "max" ->
            /\ ParseFloat(rule.value).ok
            /\ NumericField(rule.field, candidate).ok
            /\ RatEq(NumericField(rule.field, candidate).v,
                     Rat(ParseFloat(rule.value).v.n + ParseFloat(rule.value).v.d,
                         ParseFloat(rule.value).v.d))
      [] rule.rule_type = "age_days" ->
            /\ Atoi(rule.value).ok
            /\ candidate.published_at # NullTime
            /\ ElapsedDays(candidate) = Atoi(rule.value).v + 1
      [] OTHER -> FALSE

\* C19: thresholds are inclusive.  After an evaluation, no active min, max or
\* age_days rule whose threshold the candidate meets exactly is the rejecting
\* rule, and a candidate one unit past the threshold of an active rule (T - 1
\* for min, T + 1 for max, T + 1 whole days for age_days) is rejected.
C19_ThresholdsInclusive ==
    (lastOp.op = "evaluate" /\ ~lastOp.err) =>
        LET d == rule_decisions[Len(rule_decisions)]
            c == video_candidates[lastOp.video_id]
        IN \A n \in RuleNames :
            (filter_rules[n] # NoRow /\ filter_rules[n].is_active) =>
                /\ AtThreshold(filter_rules[n], c) =>
                        ~(~d.rule_passed /\ d.reject_rule_name = n)
                /\ PastThreshold(filter_rules[n], c) => ~d.rule_passed
                /\ (\A m \in RuleNames :
                        (filter_rules[m] # NoRow /\ filter_rules[m].is_active) =>
                            AtThreshold(filter_rules[m], c)) => d.rule_passed

\* A candidate with exactly 1000 views, published 30 days and an hour ago,
\* passes min_views and max_age_days.
C19_Witness ==
    /\ lastOp.op = "evaluate" /\ ~lastOp.err /\ lastOp.video_id = "v1"
    /\ now = 1
    /\ filter_rules["min_views"] # NoRow /\ filter_rules["max_age_days"] # NoRow
    /\ video_candidates["v1"].view_count = 1000
    /\ video_candidates["v1"].published_at = <<-720>>
    /\ rule_decisions[Len(rule_decisions)].rule_passed

\* The rule has a type evaluateRule knows.
KnownType(rule) ==
    rule.rule_type \in {"min", "max", "blocklist", "allowlist", "regex", "age_days"}

\* The rule's field is one its type reads; an age_days rule reads published_at
\* whatever its field says.
RecognisedField(rule) ==
    CASE rule.rule_type \in {"min", "max"} ->
            rule.field \in {"view_count", "like_count", "comment_count",
                            "duration_seconds", "view_velocity", "engagement_rate"}
      [] rule.rule_type \in {"blocklist", "allowlist"} ->
            rule.field \in {"category", "language", "channel_id"}
      [] rule.rule_type = "regex" -> rule.field \in {"title", "description", "category"}
      [] rule.rule_type = "age_days" -> TRUE
      [] OTHER -> FALSE

\* The rule's value parses for its type.
ParsableValue(rule) ==
    CASE rule.rule_type \in {"min", "max"} -> ParseFloat(rule.value).ok
      [] rule.rule_type \in {"blocklist", "allowlist"} -> UnmarshalList(rule.value).ok
      [] rule.rule_type = "regex" -> RegexCompiles(rule.value)
      [] rule.rule_type = "age_days" -> Atoi(rule.value).ok
      [] OTHER -> FALSE

\* C20: rule evaluation is lenient.  An evaluation returns an error only when
\* a store call failed, and the decision it records is never a rejection by a
\* rule of unknown type, with an unrecognised field or with an unparsable
\* value.
C20_LenientEvaluation ==
    lastOp.op = "evaluate_with" =>
        /\ lastOp.err => lastOp.failure # "none"
        /\ ~lastOp.err =>
            LET d == rule_decisions[Len(rule_decisions)]
            IN \A n \in RuleNames :
                (/\ filter_rules[n] # NoRow
                 /\ \/ ~KnownType(filter_rules[n])
                    \/ ~RecognisedField(filter_rules[n])
                    \/ ~ParsableValue(filter_rules[n]))
                    => ~(~d.rule_passed /\ d.reject_rule_name = n)

\* v2 (100 views, a sponsored title, News & Politics, no date) evaluated
\* under a rule of unknown type, a blocklist on a field blocklists do not
\* read and a min rule whose value is no number: it passes.
C20_Witness ==
    /\ lastOp.op = "evaluate_with" /\ ~lastOp.err /\ lastOp.video_id = "v2"
    /\ filter_rules["odd_type"] # NoRow
    /\ filter_rules["odd_field"] # NoRow
    /\ filter_rules["odd_field"].rule_type = "blocklist"
    /\ filter_rules["bad_value"] # NoRow
    /\ filter_rules["bad_value"].rule_type = "min"
    /\ rule_decisions[Len(rule_decisions)].rule_passed

\* Strings that differ only in the case of their letters.
CaseClasses ==
    {{"News & Politics", "news & politics", "NEWS & POLITICS"},
     {"Gaming", "gaming", "GAMING"}, {"Music", "music"},
     {"Education", "education"}, {"chA", "CHA", "cha"}, {"chB", "chb"}}

SameButCase(a, b) == a = b \/ \E class \in CaseClasses : a \in class /\ b \in class

\* The blocklist rule has an entry that is the candidate's field value up to
\* letter case.
Blocks(rule, candidate) ==
    /\ rule.rule_type = "blocklist"
    /\ UnmarshalList(rule.value).ok
    /\ ListField(rule.field, candidate).ok
    /\ \E i \in 1..Len(UnmarshalList(rule.value).v) :
            SameButCase(UnmarshalList(rule.value).v[i],
                        ListField(rule.field, candidate).v)

\* C21: blocklist matching is case-insensitive.  After an evaluation under
\* blocklist rules, the candidate is rejected if its field value equals an
\* entry of an active blocklist up to letter case, and passes if it equals no
\* entry of any active blocklist up to letter case.
C21_BlocklistIgnoresCase ==
    (lastOp.op = "evaluate" /\ ~lastOp.err) =>
        LET d == rule_decisions[Len(rule_decisions)]
            c == video_candidates[lastOp.video_id]
            active == {n \in RuleNames :
                        filter_rules[n] # NoRow /\ filter_rules[n].is_active}
        IN /\ \A n \in active : Blocks(filter_rules[n], c) => ~d.rule_passed
           /\ (\A n \in active : filter_rules[n].rule_type = "blocklist"
                                    /\ ~Blocks(filter_rules[n], c))
                    => d.rule_passed

\* v1 with category "GAMING" is rejected by the list ["Gaming","Music"].
C21_Witness ==
    /\ lastOp.op = "evaluate" /\ ~lastOp.err /\ lastOp.video_id = "v1"
    /\ video_candidates["v1"].category = "GAMING"
    /\ filter_rules["blocked_categories"] # NoRow
    /\ filter_rules["blocked_categories"].value = "[\"Gaming\",\"Music\"]"
    /\ filter_rules["blocked_channels"] = NoRow
    /\ ~rule_decisions[Len(rule_decisions)].rule_passed
    /\ rule_decisions[Len(rule_decisions)].reject_rule_name = "blocked_categories"

\* C22: seeding adds only what is absent.  A seeding leaves every rule it
\* found as it was, a seeding that returns without error leaves a rule under
\* every default name, and a seeding that follows a seeding changes nothing.
C22_SeedAddsOnlyAbsent ==
    lastOp.op = "seed_default_rules" =>
        /\ \A n \in RuleNames :
                lastOp.before[n] # NoRow => filter_rules[n] = lastOp.before[n]
        /\ ~lastOp.err =>
                \A i \in 1..Len(DefaultRules) :
                    filter_rules[DefaultRules[i].rule_name] # NoRow
        /\ (lastOp.repeat /\ ~lastOp.err) =>
                /\ filter_rules = lastOp.before
                /\ Len(ListAllRules) =
                        Cardinality({n \in RuleNames : lastOp.before[n] # NoRow})

\* A seeding finds min_views deactivated and max_age_days with another value
\* and leaves both, adding the rest.
C22_Witness ==
    /\ lastOp.op = "seed_default_rules" /\ ~lastOp.err
    /\ lastOp.before["min_views"] # NoRow
    /\ ~filter_rules["min_views"].is_active
    /\ filter_rules["max_age_days"].value = "60"
    /\ lastOp.before["blocked_categories"] = NoRow
    /\ filter_rules["blocked_categories"] # NoRow

\* The rows of list_all_rules with the name n.
RowsNamed(n) == {i \in 1..Len(ListAllRules) : ListAllRules[i].rule_name = n}

\* C23: after add_rule(r) there is exactly one rule with r's name, it is
\* active and carries r's type, field, value and priority, whether the name
\* was free, taken, or freed by a delete_rule just before.
C23_ReAddYieldsActiveLatest ==
    lastOp.op = "add_rule" =>
        LET r == lastOp.rule
        IN /\ Cardinality(RowsNamed(r.rule_name)) = 1
           /\ GetRule(r.rule_name).is_active
           /\ GetRule(r.rule_name).rule_type = r.rule_type
           /\ GetRule(r.rule_name).field = r.field
           /\ GetRule(r.rule_name).value = r.value
           /\ GetRule(r.rule_name).priority = r.priority

\* C23 (amended): after add_rule(r) there is exactly one rule with r's name
\* and it carries r's type, field, value, priority and active flag, whether
\* the name was free, taken, or freed by a delete_rule just before.
C23_ReAddYieldsLatest ==
    lastOp.op = "add_rule" =>
        LET r == lastOp.rule
        IN /\ Cardinality(RowsNamed(r.rule_name)) = 1
           /\ GetRule(r.rule_name) = r

\* min_views is added as a min rule, its value is updated, it is deleted and
\* added again as an active max rule.
C23_Witness ==
    /\ lastOp.op = "add_rule"
    /\ lastOp.rule.rule_name = "min_views"
    /\ lastOp.deleted # NoRow
    /\ lastOp.deleted.rule_type = "min" /\ lastOp.deleted.value = "60"
    /\ lastOp.before = NoRow
    /\ GetRule("min_views").rule_type = "max"
    /\ GetRule("min_views").value = "3600"
    /\ GetRule("min_views").is_active

\* The newest row of the decision log about v (the one with the largest id)
\* is a passing one.
NewestDecisionPassed(v) ==
    \E k \in 1..Len(rule_decisions) :
        /\ rule_decisions[k].video_id = v
        /\ rule_decisions[k].rule_passed
        /\ \A j \in 1..Len(rule_decisions) :
                rule_decisions[j].video_id = v => rule_decisions[j].id <= rule_decisions[k].id

\* The candidates list_filtered_candidates is to return.
PendingPassed ==
    {v \in Videos : /\ video_candidates[v] # NoRow
                    /\ uploads[v] = NoRow
                    /\ NewestDecisionPassed(v)}

\* C24: list_filtered_candidates returns only pending candidates whose
\* newest decision passed, none twice, and all of them when the limit is at
\* least their number.
C24_FilteredArePendingAndPassed ==
    lastOp.op = "list_filtered" =>
        LET s == lastOp.result
        IN /\ \A i \in 1..Len(s) : s[i] \in PendingPassed
           /\ \A i, j \in 1..Len(s) : i # j => s[i] # s[j]
           /\ Len(s) <= lastOp.limit
           /\ lastOp.limit >= Cardinality(PendingPassed) =>
                    {s[i] : i \in 1..Len(s)} = PendingPassed

\* v3 was rejected and then passed, v1 is stored and has no decision: the
\* listing returns v3 alone.
C24_Witness ==
    /\ lastOp.op = "list_filtered"
    /\ lastOp.limit = MaxLimit
    /\ lastOp.result = <<"v3">>
    /\ video_candidates["v1"] # NoRow /\ uploads["v1"] = NoRow
    /\ DecisionsOf("v1") = {}
    /\ \E d \in DecisionsOf("v3") : ~d.rule_passed

\* The number of uploads rows of video v (video_id is the primary key).
UploadRows(v) == Cardinality({u \in {v} : uploads[u] # NoRow})

\* C25: no step of the store, the scanner, the rule engine or the controller
\* removes an uploads row, and no video has two rows.
C25_UploadsArePermanent ==
    [][\A v \in Videos :
            /\ IsUploaded(v) => IsUploaded(v)'
            /\ UploadRows(v)' <= 1]_vars

\* The three videos were uploaded one after another, by store calls and by
\* the controller, around a scan and an evaluation: each row outlived the
\* later operations.
C25_Witness ==
    /\ \A v \in Videos : IsUploaded(v)
    /\ ctl["p1"].pc = "done" /\ ctl["p1"].uploaded = 1
    /\ channels["chA"] # NoRow /\ video_candidates["v2"] # NoRow
    /\ Len(rule_decisions) > 0

\* C26: no step modifies or removes a row of rule_decisions: the log after
\* the step starts with the log before it.
C26_DecisionLogAppendOnly ==
    [][/\ Len(rule_decisions') >= Len(rule_decisions)
       /\ \A k \in 1..Len(rule_decisions) : rule_decisions'[k] = rule_decisions[k]
       /\ \A v \in Videos :
            Cardinality(DecisionsOf(v))' >= Cardinality(DecisionsOf(v))]_vars

\* A candidate was rejected by a rule, evaluated again and uploaded, and the
\* rule was deleted: the rejection naming the rule is still the first row.
C26_Witness ==
    \E v \in Videos :
        /\ Len(rule_decisions) >= 2
        /\ rule_decisions[1].video_id = v
        /\ rule_decisions[2].video_id = v
        /\ ~rule_decisions[1].rule_passed
        /\ filter_rules[rule_decisions[1].reject_rule_name] = NoRow
        /\ IsUploaded(v)

\* The platform id a store call on the uploads row of its video has to
\* leave: the one supplied, or the stored one when the supplied one is empty.
ExpectedBvid ==
    IF lastOp.bvid # "" THEN lastOp.bvid
    ELSE IF lastOp.before = NoRow THEN "" ELSE lastOp.before.bilibili_bvid

\* C27: after a store operation on the upload of v, the stored
\* platform_video_id is the most recent non-empty value supplied: a call
\* that supplies an empty id leaves the stored one.
C27_BvidNeverEmptied ==
    (lastOp.op \in {"mark_uploaded", "update_bvid"} /\ uploads[lastOp.video_id] # NoRow)
        => uploads[lastOp.video_id].bilibili_bvid = ExpectedBvid

\* The part of C27 about mark_uploaded alone.
C27_MarkUploadedKeepsBvid ==
    lastOp.op = "mark_uploaded"
        => /\ uploads[lastOp.video_id] # NoRow
           /\ uploads[lastOp.video_id].bilibili_bvid = ExpectedBvid

\* mark_uploaded without an id on a row that carries one.
C27_Witness ==
    /\ lastOp.op = "mark_uploaded"
    /\ lastOp.bvid = ""
    /\ lastOp.before # NoRow
    /\ lastOp.before.bilibili_bvid = "BV1"

\* C28: add_channel on a stored channel keeps the stored name against an
\* empty one and the stored counts against zero, replaces them otherwise,
\* and always writes the url.
C28_AddChannelPreservesOnEmpty ==
    (lastOp.op = "add_channel" /\ lastOp.before # NoRow) =>
        LET ch == lastOp.ch
            old == lastOp.before
            new == GetChannel(ch.channel_id)
        IN /\ new.name = IF ch.name = "" THEN old.name ELSE ch.name
           /\ new.subscriber_count =
                IF ch.subscriber_count = 0 THEN old.subscriber_count
                ELSE ch.subscriber_count
           /\ new.video_count =
                IF ch.video_count = 0 THEN old.video_count ELSE ch.video_count
           /\ new.url = ch.url

\* C29: channels are never deleted; deactivate_channel leaves the row, with
\* is_active false, and the candidates and decisions; add_channel on a stored
\* channel makes it active whatever is_active it is passed and leaves
\* created_at and last_scanned_at.
C29_ReAddReactivates ==
    [][\A c \in ChannelIDs :
        channels[c] # NoRow =>
            /\ GetChannel(c)' # NoRow
            /\ (lastOp'.op = "deactivate_channel" /\ lastOp'.channel_id = c)
                    => /\ ~GetChannel(c)'.is_active
                       /\ UNCHANGED <<video_candidates, rule_decisions>>
            /\ (lastOp'.op = "add_channel" /\ lastOp'.ch.channel_id = c)
                    => /\ GetChannel(c)'.is_active
                       /\ GetChannel(c)'.created_at = channels[c].created_at
                       /\ GetChannel(c)'.last_scanned_at = channels[c].last_scanned_at
                       /\ UNCHANGED <<video_candidates, rule_decisions>>]_vars

\* A scanned channel with a candidate and a decision was deactivated and is
\* added again, later, with is_active = false.
C29_Witness ==
    /\ lastOp.op = "add_channel"
    /\ ~lastOp.ch.is_active
    /\ lastOp.before # NoRow
    /\ ~lastOp.before.is_active
    /\ lastOp.before.last_scanned_at # NullTime
    /\ lastOp.before.created_at < now
    /\ channels["chA"].is_active
    /\ video_candidates["v1"] # NoRow
    /\ Len(rule_decisions) > 0

\* C30: every stored candidate's engagement_rate is (like_count +
\* comment_count) / view_count of its stored counts, 0 without views, and its
\* view_velocity is 0 when it has no published_at or no views.
C30_DerivedMetricsMatchCounts ==
    \A v \in Videos :
        video_candidates[v] # NoRow =>
            LET c == video_candidates[v]
            IN /\ IF c.view_count = 0 THEN c.engagement_rate.n = 0
                  ELSE c.engagement_rate.n * c.view_count
                            = (c.like_count + c.comment_count) * c.engagement_rate.d
               /\ (c.published_at = NullTime \/ c.view_count = 0)
                        => c.view_velocity.n = 0

\* C31: every uploads row is the row of a stored candidate, the rows written
\* by sync_channel and sync_video for ids no scan has stored included.
C31_UploadImpliesCandidate ==
    \A v \in Videos : IsUploaded(v) => GetCandidate(v) # NoRow

\* The decisions about v that the last scan appended to the log.
NewDecisionsOf(v) ==
    {k \in (Len(lastOp.before.decisions) + 1)..Len(rule_decisions) :
        rule_decisions[k].video_id = v}

\* C32: a scan with auto_filter on that wrote k >= 1 candidates records
\* exactly one decision for each candidate it wrote and none for any other;
\* with k = 0 or auto_filter off it records none.
C32_AutoFilterEvaluatesWritten ==
    (lastOp.op = "scan" /\ ~lastOp.err) =>
        \A v \in Videos :
            Cardinality(NewDecisionsOf(v)) =
                IF lastOp.auto /\ lastOp.count >= 1 /\ v \in lastOp.written
                THEN 1 ELSE 0

\* C33: no scan_channel, scan_all_active or filter_pending_candidates call
\* records a decision for a candidate that has an uploads row.
C33_UploadedIsTerminal ==
    [][lastOp'.op \in {"scan", "scan_all_active", "filter_pending"} =>
            \A v \in Videos :
                IsUploaded(v) => DecisionsOf(v)' = DecisionsOf(v)]_vars

\* The part of C33 about filter_pending_candidates.
C33_FilterSkipsUploaded ==
    [][lastOp'.op = "filter_pending" =>
            \A v \in Videos :
                IsUploaded(v) => DecisionsOf(v)' = DecisionsOf(v)]_vars

\* C34: a filter_pending_candidates call records decisions only for
\* candidates that had none, one each, whatever was done to the rules since;
\* a rule change by itself leaves every candidate's decisions, so a
\* rejection stays the latest decision of its candidate.
C34_FilterOnlyUnevaluated ==
    [][/\ lastOp'.op = "filter_pending" =>
            \A v \in Videos :
                \/ DecisionsOf(v)' = DecisionsOf(v)
                \/ /\ DecisionsOf(v) = {}
                   /\ Cardinality(DecisionsOf(v)') = 1
       /\ lastOp'.op = "store" => rule_decisions' = rule_decisions]_vars

\* v2 was rejected by a rule that has since been deleted, v1 arrived after
\* that, and the filter pass that just ran decided on v1 alone: the
\* rejection is still the only decision of v2, though v2 would pass now.
C34_Witness ==
    /\ lastOp.op = "filter_pending"
    /\ lastOp.recorded = 1
    /\ Cardinality(DecisionsOf("v2")) = 1
    /\ \E d \in DecisionsOf("v2") :
            /\ d.id = 1
            /\ ~d.rule_passed
            /\ filter_rules[d.reject_rule_name] = NoRow
    /\ Decide(video_candidates["v2"]).rule_passed
    /\ \E d \in DecisionsOf("v1") : d.id = 2

\* C35: a filter pass that a store failure aborts returns, with the error,
\* the passed and rejected candidates of the decisions it recorded before
\* the failure.
C35_AbortReturnsResultsSoFar ==
    (lastOp.op = "filter_pending" /\ lastOp.err) =>
        lastOp.passed + lastOp.rejected = lastOp.recorded

\* The part of C35 about the store: the pass that fails at its k-th
\* candidate has recorded at most the decisions of the candidates before it,
\* and they stay in the log.
C35_AbortKeepsEarlierDecisions ==
    [][(lastOp'.op = "filter_pending" /\ lastOp'.err) =>
            /\ lastOp'.recorded <= 1
            /\ Len(rule_decisions') = Len(rule_decisions) + lastOp'.recorded
            /\ SubSeq(rule_decisions', 1, Len(rule_decisions)) = rule_decisions]_vars

\* C36: a scan of a stored channel whose metadata call succeeded sets
\* last_scanned_at to the time of the scan and returns no error, with the
\* number of upserts that succeeded, however many upserts failed.
C36_ScanStampsDespiteFailures ==
    (/\ lastOp.op = "scan"
     /\ lastOp.before.chans[lastOp.channel] # NoRow
     /\ lastOp.fetchOk /\ lastOp.limit > 0)
        => /\ ~lastOp.err
           /\ GetChannel(lastOp.channel).last_scanned_at = <<lastOp.at>>
           /\ lastOp.count = Cardinality(lastOp.written)

\* Every upsert of a later scan failed: count 0, no error, and the
\* timestamp moved from the earlier scan's time to this one's.
C36_Witness ==
    /\ lastOp.op = "scan"
    /\ lastOp.fetchOk /\ lastOp.limit = MaxLimit
    /\ lastOp.failed = {"v1", "v2"}
    /\ lastOp.count = 0
    /\ lastOp.before.chans["chA"] # NoRow
    /\ lastOp.before.chans["chA"].last_scanned_at = <<0>>
    /\ channels["chA"].last_scanned_at = <<1>>

\* C37: a scan whose metadata call fails returns 0 and the error and leaves
\* the candidates and the decision log; a scan of a channel that is not in
\* the store returns 0 without error and leaves the store.
C37_FailedScanWritesNothing ==
    lastOp.op = "scan" =>
        /\ lastOp.before.chans[lastOp.channel] = NoRow
                => /\ ~lastOp.err /\ lastOp.count = 0
                   /\ video_candidates = lastOp.before.cands
                   /\ channels = lastOp.before.chans
                   /\ rule_decisions = lastOp.before.decisions
        /\ (/\ lastOp.before.chans[lastOp.channel] # NoRow
            /\ (~lastOp.fetchOk \/ lastOp.limit <= 0))
                => /\ lastOp.err /\ lastOp.count = 0
                   /\ video_candidates = lastOp.before.cands
                   /\ rule_decisions = lastOp.before.decisions

\* The metadata call of a scan with the auto-filter fails on a channel
\* whose candidates an earlier scan has stored.
C37_Witness ==
    /\ lastOp.op = "scan"
    /\ lastOp.auto /\ ~lastOp.fetchOk /\ lastOp.limit = MaxLimit
    /\ lastOp.err
    /\ lastOp.before.chans["chA"] # NoRow
    /\ lastOp.before.cands["v1"] # NoRow

\* The active rules that reject the stored candidate v.
FailingRules(v) ==
    {n \in RuleNames : /\ filter_rules[n] # NoRow
                       /\ filter_rules[n].is_active
                       /\ ~evaluateRule(filter_rules[n], video_candidates[v]).passed}

\* n comes before every other failing rule: higher priority, or the same
\* priority and the earlier name.
FirstOfFailing(n, v) ==
    \A m \in FailingRules(v) \ {n} :
        \/ filter_rules[n].priority > filter_rules[m].priority
        \/ /\ filter_rules[n].priority = filter_rules[m].priority
           /\ NameRank(n) < NameRank(m)

\* C38: the decision evaluate records is a function of the active rules and
\* the candidate: passed when no active rule fails, else rejected by the
\* failing rule that is first by priority descending, then rule name.
C38_FirstFailingRuleByPriorityThenName ==
    (lastOp.op = "evaluate" /\ ~lastOp.err) =>
        LET d == rule_decisions[Len(rule_decisions)]
            v == lastOp.video_id
        IN /\ d.video_id = v
           /\ d.rule_passed <=> FailingRules(v) = {}
           /\ ~d.rule_passed =>
                /\ d.reject_rule_name \in FailingRules(v)
                /\ FirstOfFailing(d.reject_rule_name, v)

\* v2 fails block_sponsored and min_views, both of priority 100: the
\* decision names block_sponsored.
C38_Witness ==
    /\ lastOp.op = "evaluate" /\ lastOp.video_id = "v2"
    /\ {"block_sponsored", "min_views"} \subseteq FailingRules("v2")
    /\ filter_rules["block_sponsored"].priority = 100
    /\ filter_rules["min_views"].priority = 100
    /\ rule_decisions[Len(rule_decisions)].reject_rule_name = "block_sponsored"

\* The number of the three listings, taken without limit, that return v, for
\* the orders u, f, r in which they return their rows.
ListingsOf(v, u, f, r) ==
    Cardinality({i \in 1..3 :
        LET s == IF i = 1 THEN u ELSE IF i = 2 THEN f ELSE r
        IN \E k \in 1..Len(s) : s[k] = v})

\* C39: without limit, every candidate that has no uploads row is returned
\* by exactly one of list_unevaluated_candidates, list_filtered_candidates
\* and list_rejected_candidates, and no candidate is returned by both of the
\* last two.
C39_PendingPartitioned ==
    \A u \in ListUnevaluatedCandidates(-1), f \in ListFilteredCandidates(-1),
       r \in ListRejectedCandidates(-1) :
        \A v \in Videos :
            /\ (video_candidates[v] # NoRow /\ ~IsUploaded(v))
                    => ListingsOf(v, u, f, r) = 1
            /\ ~(/\ \E k \in 1..Len(f) : f[k] = v
                 /\ \E k \in 1..Len(r) : r[k] = v)

\* Three pending candidates, one in each listing.
C39_Witness ==
    /\ \A v \in Videos : video_candidates[v] # NoRow /\ ~IsUploaded(v)
    /\ ListUnevaluatedCandidates(-1) = {<<"v2">>}
    /\ ListFilteredCandidates(-1) = {<<"v1">>}
    /\ ListRejectedCandidates(-1) = {<<"v3">>}

\* C40: with no arrivals and no store failure a filter pass of limit N >= 1
\* decides on min(N, remaining) candidates that had no decision, once each,
\* and the passes lead to an empty list_unevaluated_candidates with one
\* decision for every candidate.
C40_FilterDrains ==
    /\ [][lastOp'.op = "filter_pending" =>
            /\ Cardinality(UnevaluatedRows \ UnevaluatedRows') =
                    Min(lastOp'.limit, Cardinality(UnevaluatedRows))
            /\ UnevaluatedRows' \subseteq UnevaluatedRows
            /\ Len(rule_decisions') - Len(rule_decisions) =
                    Min(lastOp'.limit, Cardinality(UnevaluatedRows))
            /\ \A v \in Videos : Cardinality(DecisionsOf(v)') <= 1]_vars
    /\ (lastOp.op = "filter_pending") ~>
            (/\ UnevaluatedRows = {}
             /\ \A v \in Videos :
                    video_candidates[v] # NoRow => Cardinality(DecisionsOf(v)) = 1)

\* M = 2 candidates and N = 1: the second pass, like the first, decided on
\* one candidate and the list is empty.
C40_Witness ==
    /\ lastOp.op = "filter_pending"
    /\ lastOp.limit = 1
    /\ lastOp.recorded = 1 /\ lastOp.first = 1
    /\ Len(rule_decisions) = 2
    /\ UnevaluatedRows = {}

====
